---------------------------- MODULE Spec2Model ----------------------------
(***************************************************************************)
(* OJTmeter backend: the document store (in-memory mock or Cosmos DB), the *)
(* repositories (UserModel, TimeLogModel, ProjectModel), the credential    *)
(* service (AuthService), the authentication middleware, the routers and   *)
(* the request handlers, as a state machine.                               *)
(*                                                                         *)
(* A request is dispatched (the router's middleware chain and the          *)
(* handler's code up to its first awaited store call run in one step) and  *)
(* then advances one awaited call at a time.  Every awaited call of the    *)
(* mock store completes without I/O, so a handler running against the mock *)
(* store yields to other requests only at a bcrypt call; against Cosmos DB *)
(* it yields at every store call.  The server is taken as started: the     *)
(* store service is initialised and the routers are mounted.               *)
(***************************************************************************)
EXTENDS Integers, Sequences, FiniteSets, TLC

---------------------------------------------------------------------------
(* Bounds of the exploration *)

MaxLogs == 2        \* time logs created in one run
MaxNewUsers == 2    \* users created in one run
MaxInFlight == 2    \* requests being served at the same time
MaxDay == 2         \* calendar dates 1..MaxDay

(* Program constants *)

FindByUserLimit == 100      \* TimeLogModel.findByUser(userId, limit = 100)
MinHoursTenths == 1         \* isFloat({ min: 0.1, ... }), in tenths of an hour
MaxHoursTenths == 240       \* isFloat({ ..., max: 24 }), in tenths of an hour
MinPasswordLength == 8      \* password.length < 8

---------------------------------------------------------------------------
(* Values *)

Null == [null |-> TRUE]             \* JavaScript null / undefined
Undefined == "undefined"            \* an absent string property
Idle == [op |-> "idle"]             \* a slot serving no request
NoUser == [id |-> "anonymous", role |-> "none"]   \* req.user not set
NoBody == [none |-> TRUE]
NoRoute == [router |-> "none", route |-> "none", chain |-> <<>>]

Slots == 1..MaxInFlight
Days == 1..MaxDay

UserRoles == {"super_admin", "admin", "user"}

DefaultAdminId == "user_admin_001"
DefaultAdminEmail == "admin@ojtmeter.com"
DefaultAdminPassword == <<"a", "d", "m", "i", "n", "1", "2", "3">>

\* two users who registered before the run starts
Alice == "user_1"
Bob == "user_2"

\* a password that meets every rule of validatePassword
GoodPassword == <<"P", "a", "s", "s", "w", "0", "r", "d", "!">>

\* ids as generateId() returns them: a prefix and a part never seen before
UserIdSeq == <<"user_3", "user_4", "user_5", "user_6", "user_7">>
TimeLogIdSeq == <<"timelog_1", "timelog_2", "timelog_3", "timelog_4", "timelog_5">>

Min(a, b) == IF a < b THEN a ELSE b

Take(s, n) == SubSeq(s, 1, Min(n, Len(s)))       \* Array.prototype.slice(0, n)

\* Array.prototype.findIndex, 0 standing for -1
FindIndex(c, Test(_)) ==
    IF \E i \in 1..Len(c) : Test(c[i])
    THEN CHOOSE i \in 1..Len(c) : Test(c[i]) /\ \A j \in 1..(i - 1) : ~Test(c[j])
    ELSE 0

\* { ...doc, ...updates }
Spread(doc, updates) ==
    [k \in (DOMAIN doc) \cup (DOMAIN updates) |->
        IF k \in DOMAIN updates THEN updates[k] ELSE doc[k]]

RemoveAt(c, i) == SubSeq(c, 1, i - 1) \o SubSeq(c, i + 1, Len(c))

---------------------------------------------------------------------------
(* State *)

VARIABLES
    backend,      \* "mock" or "cosmos": the service initializeCosmosDB built
    users,        \* container Users
    timeLogs,     \* container TimeLogs
    projects,     \* container Projects
    nextUserId,   \* ids handed out so far by UserModel.generateId, plus one
    nextLogId,    \* ids handed out so far by TimeLogModel.generateId, plus one
    tokens,       \* payloads of the tokens AuthService.generateToken signed
    reqs,         \* the requests being served and the responses not yet sent, by slot
    running,      \* the slot whose handler has not yielded yet, or 0
    password,     \* input of validatePassword
    pwResult,     \* its result
    mwRoute,      \* the route a request to the middleware chain names
    mwHeader,     \* its Authorization header
    mwPermission, \* permission of requirePermission(permission)
    mwStage,      \* how far the chain got
    mwUser,       \* req.user
    mwStatus,     \* status the chain answered with, 0 while it has not answered
    mwError,      \* message of the error verifyToken threw, "none" if it threw none
    blobService,  \* what initializeBlobStorage left: the export storage service
    blobs,        \* the objects of the export storage container
    fbfArgs,      \* arguments of a call of TimeLogModel.findByFilters
    fbfResult,    \* what the call returned
    csvRows,      \* data argument of convertToCSV
    csvText,      \* the text convertToCSV returned
    env,          \* process.env: what the process was started with
    cosmosService,\* the module variable cosmosService of utils/cosmos
    callers,      \* the calls of initializeCosmosDB and getCosmosDB, by caller
    server        \* how far the server module's evaluation and startServer got

storeVars == <<backend, users, timeLogs, projects, nextUserId, nextLogId>>
httpVars == <<tokens, reqs, running>>
pwVars == <<password, pwResult>>
mwVars == <<mwRoute, mwHeader, mwPermission, mwStage, mwUser, mwStatus, mwError>>
blobVars == <<blobService, blobs>>
filterVars == <<fbfArgs, fbfResult>>
csvVars == <<csvRows, csvText>>
bootVars == <<env, cosmosService, callers, server>>
exVars == <<blobVars, filterVars, csvVars, bootVars>>
vars == <<storeVars, httpVars, pwVars, mwVars, exVars>>

---------------------------------------------------------------------------
(* The document store: MockCosmosDBService and Cosmos DB *)

\* the containers' partition key paths: /userId for TimeLogs, /id otherwise
PartitionKey(cname, item) ==
    IF cname = "TimeLogs" THEN item.userId ELSE item.id

\* A document as Cosmos DB stores and returns it: JSON, a Date is a string
ToJSON(item) ==
    IF "date" \in DOMAIN item
    THEN [item EXCEPT !.date = [day |-> item.date.day, isDate |-> FALSE]]
    ELSE item

\* item(id, partitionKey).read() of the mock: by id alone
MockRead(c, id) ==
    LET i == FindIndex(c, LAMBDA it : it.id = id)
    IN  IF i = 0 THEN Null ELSE c[i]

\* item(id, partitionKey).replace(updatedItem) of the mock
MockReplace(c, id, item) ==
    LET i == FindIndex(c, LAMBDA it : it.id = id)
    IN  IF i = 0 THEN [ok |-> FALSE, container |-> c, resource |-> Null]
        ELSE [ok |-> TRUE, container |-> [c EXCEPT ![i] = item], resource |-> item]

\* item(id, partitionKey).delete() of the mock
MockDelete(c, id) ==
    LET i == FindIndex(c, LAMBDA it : it.id = id)
    IN  IF i = 0 THEN [ok |-> FALSE, container |-> c]
        ELSE [ok |-> TRUE, container |-> RemoveAt(c, i)]

\* items.create(item) of the mock (the repositories always set the id)
MockCreate(c, item) == [ok |-> TRUE, container |-> Append(c, item), resource |-> item]

\* items.query(querySpec).fetchAll() of the mock: only the parameters @email
\* and @userId filter, the query text is not read
MockQuery(c, params) ==
    LET byEmail == IF "email" \in DOMAIN params
                   THEN SelectSeq(c, LAMBDA it : it.email = params.email)
                   ELSE c
    IN  IF "userId" \in DOMAIN params
        THEN SelectSeq(byEmail, LAMBDA it : it.userId = params.userId)
        ELSE byEmail

\* Cosmos DB: a point operation addresses the document by id and partition key
CosmosIndex(cname, c, id, pk) ==
    FindIndex(c, LAMBDA it : it.id = id /\ PartitionKey(cname, it) = pk)

CosmosRead(cname, c, id, pk) ==
    LET i == CosmosIndex(cname, c, id, pk)
    IN  IF i = 0 THEN Null ELSE c[i]

\* replace: the body must keep the id and the partition key of the document
CosmosReplace(cname, c, id, pk, item) ==
    LET i == CosmosIndex(cname, c, id, pk)
    IN  IF i = 0 \/ item.id # id \/ PartitionKey(cname, item) # pk
        THEN [ok |-> FALSE, container |-> c, resource |-> Null]
        ELSE [ok |-> TRUE, container |-> [c EXCEPT ![i] = ToJSON(item)],
              resource |-> ToJSON(item)]

CosmosDelete(cname, c, id, pk) ==
    LET i == CosmosIndex(cname, c, id, pk)
    IN  IF i = 0 THEN [ok |-> FALSE, container |-> c]
        ELSE [ok |-> TRUE, container |-> RemoveAt(c, i)]

CosmosCreate(cname, c, item) ==
    IF CosmosIndex(cname, c, item.id, PartitionKey(cname, item)) # 0
    THEN [ok |-> FALSE, container |-> c, resource |-> Null]
    ELSE [ok |-> TRUE, container |-> Append(c, ToJSON(item)), resource |-> ToJSON(item)]

\* Cosmos DB evaluates the WHERE clause: c.date >= @startDate, c.date <= @endDate
\* (dates are ISO strings, ordered as the days are), an equality for every
\* other parameter
CosmosQuery(c, params) ==
    SelectSeq(c, LAMBDA it :
        \A k \in DOMAIN params :
            CASE k = "startDate" -> it.date.day >= params[k]
              [] k = "endDate" -> it.date.day <= params[k]
              [] OTHER -> it[k] = params[k])

\* ORDER BY c.date DESC (insertion sort, equal dates keep their order)
RECURSIVE InsertByDateDesc(_, _)
InsertByDateDesc(sorted, it) ==
    IF sorted = <<>> THEN <<it>>
    ELSE IF Head(sorted).date.day >= it.date.day
         THEN <<Head(sorted)>> \o InsertByDateDesc(Tail(sorted), it)
         ELSE <<it>> \o sorted

RECURSIVE OrderByDateDesc(_)
OrderByDateDesc(c) ==
    IF c = <<>> THEN <<>>
    ELSE InsertByDateDesc(OrderByDateDesc(SubSeq(c, 1, Len(c) - 1)), c[Len(c)])

ItemRead(cname, c, id, pk) ==
    IF backend = "mock" THEN MockRead(c, id) ELSE CosmosRead(cname, c, id, pk)

ItemReplace(cname, c, id, pk, item) ==
    IF backend = "mock" THEN MockReplace(c, id, item)
    ELSE CosmosReplace(cname, c, id, pk, item)

ItemDelete(cname, c, id, pk) ==
    IF backend = "mock" THEN MockDelete(c, id) ELSE CosmosDelete(cname, c, id, pk)

ItemsCreate(cname, c, item) ==
    IF backend = "mock" THEN MockCreate(c, item) ELSE CosmosCreate(cname, c, item)

---------------------------------------------------------------------------
(* AuthService: the credential service *)

\* bcrypt.hash / bcrypt.compare: a hash matches the password it was made from
HashPassword(pw) == <<"bcrypt", pw>>
ComparePassword(pw, hashed) == hashed = HashPassword(pw)

\* String.prototype.toLowerCase on the letters used in e-mail addresses
LowerChar(ch) ==
    CASE ch = "A" -> "a"
      [] ch = "B" -> "b"
      [] OTHER -> ch

ToLowerCase(str) == [i \in 1..Len(str) |-> LowerChar(str[i])]

\* jwt.sign(payload, secret, { expiresIn, issuer, audience })
GenerateToken(user) == [id |-> user.id, role |-> user.role]

\* jwt.verify(token, secret): the payload, or the library's error
JwtVerify(token) ==
    CASE token.kind = "valid" -> [ok |-> TRUE, payload |-> token.payload, error |-> "none"]
      [] token.kind = "expired" -> [ok |-> FALSE, payload |-> Null, error |-> "TokenExpiredError"]
      [] token.kind = "badsig" -> [ok |-> FALSE, payload |-> Null, error |-> "JsonWebTokenError: invalid signature"]
      [] OTHER -> [ok |-> FALSE, payload |-> Null, error |-> "JsonWebTokenError: jwt malformed"]

\* a verification that lets an expired token through (ignoreExpiration)
VerifyTokenIgnoringExpiry(token) ==
    IF token.kind \in {"valid", "expired"}
    THEN [ok |-> TRUE, payload |-> token.payload, error |-> "none"]
    ELSE [ok |-> FALSE, payload |-> Null, error |-> "Invalid token"]

\* AuthService.verifyToken: try { return jwt.verify(...) } catch { throw new Error('Invalid token') }
VerifyToken(token) ==
    LET v == JwtVerify(token)
    IN  IF v.ok THEN v ELSE [ok |-> FALSE, payload |-> Null, error |-> "Invalid token"]

\* AuthService.extractTokenFromHeader
ExtractTokenFromHeader(authHeader) ==
    IF authHeader = Null THEN Null
    ELSE IF authHeader.nparts # 2 \/ authHeader.scheme # "Bearer" THEN Null
    ELSE authHeader.token

\* the character classes of validatePassword's regular expressions
UpperCaseChars == {"A", "B", "C", "D", "E", "F", "G", "H", "I", "J", "K", "L", "M",
                   "N", "O", "P", "Q", "R", "S", "T", "U", "V", "W", "X", "Y", "Z"}
LowerCaseChars == {"a", "b", "c", "d", "e", "f", "g", "h", "i", "j", "k", "l", "m",
                   "n", "o", "p", "q", "r", "s", "t", "u", "v", "w", "x", "y", "z"}
DigitChars == {"0", "1", "2", "3", "4", "5", "6", "7", "8", "9"}
SpecialChars == {"!", "@", "#", "$", "%", "^", "&", "*", "(", ")", ",", ".", "?",
                 "\"", ":", "{", "}", "|", "<", ">"}

\* RegExp.prototype.test with a character class
TestClass(class, str) == \E i \in 1..Len(str) : str[i] \in class

ErrTooShort == "Password must be at least 8 characters long"
ErrNoUpper == "Password must contain at least one uppercase letter"
ErrNoLower == "Password must contain at least one lowercase letter"
ErrNoDigit == "Password must contain at least one number"
ErrNoSpecial == "Password must contain at least one special character"

PushIf(errors, cond, msg) == IF cond THEN Append(errors, msg) ELSE errors

\* a validatePassword that returns at the first rule violated
ValidatePasswordFirstOnly(pw) ==
    LET errors ==
            IF Len(pw) < MinPasswordLength THEN <<ErrTooShort>>
            ELSE IF ~TestClass(UpperCaseChars, pw) THEN <<ErrNoUpper>>
            ELSE IF ~TestClass(LowerCaseChars, pw) THEN <<ErrNoLower>>
            ELSE IF ~TestClass(DigitChars, pw) THEN <<ErrNoDigit>>
            ELSE IF ~TestClass(SpecialChars, pw) THEN <<ErrNoSpecial>>
            ELSE <<>>
    IN  [isValid |-> Len(errors) = 0, errors |-> errors]

\* AuthService.validatePassword
ValidatePassword(pw) ==
    LET e1 == PushIf(<<>>, Len(pw) < MinPasswordLength, ErrTooShort)
        e2 == PushIf(e1, ~TestClass(UpperCaseChars, pw), ErrNoUpper)
        e3 == PushIf(e2, ~TestClass(LowerCaseChars, pw), ErrNoLower)
        e4 == PushIf(e3, ~TestClass(DigitChars, pw), ErrNoDigit)
        e5 == PushIf(e4, ~TestClass(SpecialChars, pw), ErrNoSpecial)
    IN  [isValid |-> Len(e5) = 0, errors |-> e5]

\* AuthService.hasPermission: the rolePermissions table
RolePermissions(role) ==
    CASE role = "super_admin" ->
            {"manage_users", "manage_projects", "view_all_logs", "export_data", "manage_roles"}
      [] role = "admin" ->
            {"manage_users", "manage_projects", "view_all_logs", "export_data"}
      [] role = "user" ->
            {"view_own_logs", "create_logs", "edit_own_logs", "delete_own_logs"}
      [] OTHER -> {}

HasPermission(userRole, requiredPermission) ==
    requiredPermission \in RolePermissions(userRole)

---------------------------------------------------------------------------
(* middleware/auth.ts *)

\* an authenticateToken that looks the token's user up: 401 unless the user is
\* stored and active
AuthenticateTokenOfStoredUser(authHeader) ==
    LET token == ExtractTokenFromHeader(authHeader)
    IN  IF token = Null
        THEN [next |-> FALSE, status |-> 401, user |-> NoUser]
        ELSE LET v == VerifyToken(token)
             IN  IF v.ok /\ \E i \in 1..Len(users) :
                               users[i].id = v.payload.id /\ users[i].isActive
                 THEN [next |-> TRUE, status |-> 0, user |-> v.payload]
                 ELSE [next |-> FALSE, status |-> 401, user |-> NoUser]

\* authenticateToken: next() with req.user set, or 401
AuthenticateToken(authHeader) ==
    LET token == ExtractTokenFromHeader(authHeader)
    IN  IF token = Null
        THEN [next |-> FALSE, status |-> 401, user |-> NoUser]
        ELSE LET v == VerifyToken(token)
             IN  IF v.ok THEN [next |-> TRUE, status |-> 0, user |-> v.payload]
                 ELSE [next |-> FALSE, status |-> 401, user |-> NoUser]

\* requireRole(roles)
RequireRole(roles, user) ==
    IF user = NoUser THEN [next |-> FALSE, status |-> 401]
    ELSE IF user.role \notin roles THEN [next |-> FALSE, status |-> 403]
    ELSE [next |-> TRUE, status |-> 0]

\* requirePermission(permission)
RequirePermission(permission, user) ==
    IF user = NoUser THEN [next |-> FALSE, status |-> 401]
    ELSE IF ~HasPermission(user.role, permission) THEN [next |-> FALSE, status |-> 403]
    ELSE [next |-> TRUE, status |-> 0]

---------------------------------------------------------------------------
(* Repositories *)

Query(c, params) ==
    IF backend = "mock" THEN MockQuery(c, params) ELSE CosmosQuery(c, params)

\* TimeLogModel.findById: item(id, userId).read()
TimeLogModel_findById(id, userId) == ItemRead("TimeLogs", timeLogs, id, userId)

\* TimeLogModel.findByUser: WHERE c.userId = @userId ORDER BY c.date DESC, slice(0, limit)
TimeLogModel_findByUser(userId) ==
    LET found == Query(timeLogs, [userId |-> userId])
    IN  Take(IF backend = "mock" THEN found ELSE OrderByDateDesc(found), FindByUserLimit)

\* TimeLogModel.create: the document built from the request
NewTimeLog(userId, data) ==
    [id |-> TimeLogIdSeq[nextLogId], userId |-> userId, projectId |-> data.projectId,
     date |-> [day |-> data.date, isDate |-> TRUE], hours |-> data.hours]

\* ProjectModel.findById: item(id, id).read()
ProjectModel_findById(id) == ItemRead("Projects", projects, id, id)

\* UserModel.findById: item(id, id).read()
UserModel_findById(id) == ItemRead("Users", users, id, id)

\* UserModel.findByEmail: WHERE c.email = @email with email.toLowerCase()
UserModel_findByEmail(email) ==
    LET found == Query(users, [email |-> ToLowerCase(email)])
    IN  IF Len(found) > 0 THEN found[1] ELSE Null

\* UserModel.getUsersByRole: WHERE c.role = @role
UserModel_getUsersByRole(role) == Query(users, [role |-> role])

\* UserModel.create: the document built from the request
NewUser(userData) ==
    [id |-> UserIdSeq[nextUserId], email |-> ToLowerCase(userData.email),
     password |-> userData.password,
     role |-> IF userData.role = Undefined THEN "user" ELSE userData.role,
     isActive |-> TRUE]

\* the user document as stored, password hash included
WithPassword(user) == user

\* the user as the handlers return it: const { password, ...userWithoutPassword } = user
WithoutPassword(user) == [k \in (DOMAIN user) \ {"password"} |-> user[k]]

Reverse(c) == [i \in 1..Len(c) |-> c[Len(c) + 1 - i]]

\* UserModel.findAll: ORDER BY c.createdAt DESC, which the mock does not apply
UserModel_findAll == IF backend = "mock" THEN users ELSE Reverse(users)

\* if (filters.userId), if (filters.startDate), ...: the filter is set (an
\* absent date is written 0, an absent string Undefined)
FilterIsSet(filters, f) ==
    IF f \in {"startDate", "endDate"} THEN filters[f] # 0 ELSE filters[f] # Undefined

\* the query parameters findByFilters pushes: those of the filters that are set
FilterParams(filters) ==
    [k \in {f \in DOMAIN filters : FilterIsSet(filters, f)} |-> filters[k]]

\* TimeLogModel.findByFilters
TimeLogModel_findByFilters(filters, limit) ==
    LET found == Query(timeLogs, FilterParams(filters))
    IN  Take(IF backend = "mock" THEN found ELSE OrderByDateDesc(found), limit)

RECURSIVE SumHours(_)
SumHours(logs) == IF logs = <<>> THEN 0 ELSE Head(logs).hours + SumHours(Tail(logs))

\* TimeLogModel.getTotalHoursByUser: resources[0] || 0 of SELECT VALUE SUM(c.hours);
\* the mock answers the query with the user's documents
TimeLogModel_getTotalHoursByUser(userId) ==
    LET found == Query(timeLogs, [userId |-> userId])
    IN  IF backend = "mock"
        THEN (IF found = <<>> THEN [sum |-> 0] ELSE [document |-> found[1]])
        ELSE [sum |-> SumHours(found)]

---------------------------------------------------------------------------
(* Requests and responses *)

\* the awaited calls that leave the process (bcrypt.hash, bcrypt.compare)
BcryptPcs == {"hash", "compare"}

\* A request: what the client sent (op, tokenKind, id, body), req.user, the
\* handler's position and locals, its response once pc is "done", and what it
\* found when it arrived (foreign: the id names a time log and every time log of
\* that id is another user's; duplicate: the caller holds a time log of that
\* date and project; taken: a user has the e-mail address of the body, letter
\* case aside) and did (invoked, reads, wrote; failed: a store call of the
\* handler failed, after attempts attempts)
NewRequest(op, user, tokenKind, id, body) ==
    [op |-> op, pc |-> "middleware", user |-> user, tokenKind |-> tokenKind, id |-> id,
     body |-> body, doc |-> Null, status |-> 0, data |-> Null,
     invoked |-> FALSE, reads |-> FALSE, wrote |-> FALSE, failed |-> FALSE, attempts |-> 0,
     foreign |-> /\ \E i \in 1..Len(timeLogs) : timeLogs[i].id = id
                 /\ \A i \in 1..Len(timeLogs) :
                        timeLogs[i].id = id => timeLogs[i].userId # user.id,
     taken |-> /\ "email" \in DOMAIN body
               /\ \E i \in 1..Len(users) :
                    ToLowerCase(users[i].email) = ToLowerCase(body.email),
     duplicate |-> /\ op = "createTimeLog"
                   /\ \E i \in 1..Len(timeLogs) :
                        /\ timeLogs[i].userId = user.id
                        /\ timeLogs[i].date.day = body.date
                        /\ timeLogs[i].projectId = body.projectId]

\* res.status(status).json(...): the handler is over
Respond(s, r, status, data) ==
    /\ reqs' = [reqs EXCEPT ![s] = [r EXCEPT !.pc = "done", !.status = status,
                                             !.data = data, !.doc = Null]]
    /\ running' = 0

\* the handler awaits its next call
Await(s, r, pc) ==
    /\ reqs' = [reqs EXCEPT ![s] = [r EXCEPT !.pc = pc, !.invoked = TRUE]]
    /\ running' = IF backend = "mock" /\ pc \notin BcryptPcs THEN s ELSE 0

\* the handler in slot s may run its next step
MayRun(s, op, pc) ==
    /\ reqs[s] # Idle
    /\ reqs[s].op = op
    /\ reqs[s].pc = pc
    /\ running \in {0, s}

\* a request arrives: it is served in the first free slot
MayDispatch(s) ==
    /\ reqs[s] = Idle
    /\ \A t \in 1..(s - 1) : reqs[t] # Idle
    /\ running = 0

Invoked(r) == [r EXCEPT !.invoked = TRUE]
Reads(r) == [r EXCEPT !.reads = TRUE]
Wrote(r) == [r EXCEPT !.wrote = TRUE]

Done(s) == reqs[s] # Idle /\ reqs[s].pc = "done"

\* the response has been sent
Close(s) ==
    /\ Done(s)
    /\ reqs' = [reqs EXCEPT ![s] = Idle]
    /\ UNCHANGED <<storeVars, tokens, running>>

---------------------------------------------------------------------------
(* What a client can send *)

\* a token a client can present: one the server signed (still valid, or
\* expired by now), one signed with another key, or a string that is no token
PresentedTokens(payloads) ==
    [kind : {"valid", "expired"}, payload : payloads]
        \cup [kind : {"badsig"}, payload : {[id |-> Alice, role |-> "super_admin"]}]
        \cup [kind : {"malformed"}, payload : {NoUser}]

\* Authorization headers: none, "Bearer <token>", "Basic <token>", "Bearer"
Headers(payloads) ==
    {Null}
        \cup [scheme : {"Bearer", "Basic"}, nparts : {2}, token : PresentedTokens(payloads)]
        \cup [scheme : {"Bearer"}, nparts : {1}, token : {Null}]

\* the headers authenticateToken turns down
BadHeaders(payloads) == {h \in Headers(payloads) : ~AuthenticateToken(h).next}

\* what the client presented
TokenKindOf(authHeader) ==
    IF ExtractTokenFromHeader(authHeader) = Null THEN "missing"
    ELSE ExtractTokenFromHeader(authHeader).kind

HourInputs == {0, 80, 250}              \* tenths of an hour
DateInputs == 0..MaxDay                 \* 0: a string that is no ISO 8601 date
ProjectIdInputs == {Undefined, "project_1", "project_2"}
TimeLogIdInputs == {TimeLogIdSeq[i] : i \in 1..MaxLogs} \cup {"timelog_0"}

CreateTimeLogBodies == [date : DateInputs, hours : HourInputs, projectId : ProjectIdInputs]

\* req.body of PUT /api/time-logs/:id: any JSON object
UpdateTimeLogBodies ==
    [hours : HourInputs]
        \cup [date : [day : Days, isDate : {FALSE}]]
        \cup [projectId : {"project_1"}]
        \cup [userId : {Alice, Bob}]
        \cup [id : {TimeLogIdSeq[1], "timelog_0"}]

\* express-validator: isFloat({ min: 0.1, max: 24 }) and isISO8601()
HoursValid(h) == h >= MinHoursTenths /\ h <= MaxHoursTenths
IsISO8601(d) == d \in Days

CreateValidation(body) == IsISO8601(body.date) /\ HoursValid(body.hours)
UpdateValidation(body) == ("hours" \in DOMAIN body) => HoursValid(body.hours)

---------------------------------------------------------------------------
(* routes/timeLogs.ts and TimeLogController *)

TimeLogOps == {"createTimeLog", "getTimeLogById", "updateTimeLog", "deleteTimeLog"}

\* router.use(authenticateToken) turns the request down
DispatchTimeLogDenied(s) ==
    /\ MayDispatch(s)
    /\ \E op \in TimeLogOps, h \in BadHeaders(tokens) :
          Respond(s, NewRequest(op, NoUser, TokenKindOf(h), Undefined, NoBody),
                  AuthenticateToken(h).status, Null)
    /\ UNCHANGED <<storeVars, tokens>>

\* POST /api/time-logs: createValidation, then createTimeLog up to its first await
DispatchCreateTimeLog(s) ==
    /\ MayDispatch(s)
    /\ nextLogId + Cardinality({t \in Slots : reqs[t] # Idle /\ reqs[t].op = "createTimeLog"
                                                /\ reqs[t].pc # "done"}) <= MaxLogs
    /\ \E u \in tokens, body \in CreateTimeLogBodies :
          LET a == AuthenticateToken([scheme |-> "Bearer", nparts |-> 2,
                                      token |-> [kind |-> "valid", payload |-> u]])
              r == Invoked(NewRequest("createTimeLog", a.user, "valid", Undefined, body))
          IN  /\ a.next
              /\ IF ~CreateValidation(body) THEN Respond(s, r, 400, Null)
                 ELSE IF body.projectId # Undefined THEN Await(s, r, "findProject")
                 ELSE Await(s, r, "findByUser")
    /\ UNCHANGED <<storeVars, tokens>>

\* GET and DELETE /api/time-logs/:id up to the first await
DispatchTimeLogById(s) ==
    /\ MayDispatch(s)
    /\ \E op \in {"getTimeLogById", "deleteTimeLog"}, u \in tokens, id \in TimeLogIdInputs :
          LET a == AuthenticateToken([scheme |-> "Bearer", nparts |-> 2,
                                      token |-> [kind |-> "valid", payload |-> u]])
          IN  /\ a.next
              /\ Await(s, NewRequest(op, a.user, "valid", id, NoBody), "findById")
    /\ UNCHANGED <<storeVars, tokens>>

\* PUT /api/time-logs/:id: updateValidation, then updateTimeLog up to its first await
DispatchUpdateTimeLog(s) ==
    /\ MayDispatch(s)
    /\ \E u \in tokens, id \in TimeLogIdInputs, body \in UpdateTimeLogBodies :
          LET a == AuthenticateToken([scheme |-> "Bearer", nparts |-> 2,
                                      token |-> [kind |-> "valid", payload |-> u]])
              r == Invoked(NewRequest("updateTimeLog", a.user, "valid", id, body))
          IN  /\ a.next
              /\ IF ~UpdateValidation(body) THEN Respond(s, r, 400, Null)
                 ELSE Await(s, r, "findById")
    /\ UNCHANGED <<storeVars, tokens>>

\* the access check without the exemption of a project nobody is assigned to
CreateTimeLog_FindProjectStrict(s) ==
    /\ MayRun(s, "createTimeLog", "findProject")
    /\ LET r == Reads(reqs[s])
           project == ProjectModel_findById(r.body.projectId)
       IN  IF project = Null THEN Respond(s, r, 404, Null)
           ELSE IF ~\E i \in 1..Len(project.assignedUserIds) :
                          project.assignedUserIds[i] = r.user.id
                THEN Respond(s, r, 403, Null)
                ELSE Await(s, r, "findByUser")
    /\ UNCHANGED <<storeVars, tokens>>

\* createTimeLog: await this.projectModel.findById(timeLogData.projectId)
CreateTimeLog_FindProject(s) ==
    /\ MayRun(s, "createTimeLog", "findProject")
    /\ LET r == Reads(reqs[s])
           project == ProjectModel_findById(r.body.projectId)
       IN  IF project = Null THEN Respond(s, r, 404, Null)
           ELSE IF Len(project.assignedUserIds) > 0
                   /\ ~\E i \in 1..Len(project.assignedUserIds) :
                          project.assignedUserIds[i] = r.user.id
                THEN Respond(s, r, 403, Null)
                ELSE Await(s, r, "findByUser")
    /\ UNCHANGED <<storeVars, tokens>>

\* existingLogs.find(log => log.date.toDateString() === ... && log.projectId === ...):
\* toDateString is no function of a date that is a string
RECURSIVE FindDuplicate(_, _)
FindDuplicate(existingLogs, data) ==
    IF existingLogs = <<>> THEN "none"
    ELSE IF ~Head(existingLogs).date.isDate THEN "TypeError"
    ELSE IF Head(existingLogs).date.day = data.date
            /\ Head(existingLogs).projectId = data.projectId
         THEN "found"
         ELSE FindDuplicate(Tail(existingLogs), data)

\* createTimeLog: await this.timeLogModel.findByUser(userId), the duplicate check
CreateTimeLog_FindByUser(s) ==
    /\ MayRun(s, "createTimeLog", "findByUser")
    /\ LET r == Reads(reqs[s])
           duplicateLog == FindDuplicate(TimeLogModel_findByUser(r.user.id), r.body)
       IN  CASE duplicateLog = "TypeError" -> Respond(s, r, 500, Null)
             [] duplicateLog = "found" -> Respond(s, r, 409, Null)
             [] OTHER -> Await(s, r, "create")
    /\ UNCHANGED <<storeVars, tokens>>

\* createTimeLog: await this.timeLogModel.create(userId, timeLogData)
CreateTimeLog_Create(s) ==
    /\ MayRun(s, "createTimeLog", "create")
    /\ LET r == reqs[s]
           c == ItemsCreate("TimeLogs", timeLogs, NewTimeLog(r.user.id, r.body))
       IN  /\ timeLogs' = c.container
           /\ nextLogId' = nextLogId + 1
           /\ IF c.ok THEN Respond(s, Wrote(r), 201, c.resource)
              ELSE Respond(s, r, 500, Null)
    /\ UNCHANGED <<backend, users, projects, nextUserId, tokens>>

\* getTimeLogById: await this.timeLogModel.findById(id, userId)
GetTimeLogById_FindById(s) ==
    /\ MayRun(s, "getTimeLogById", "findById")
    /\ LET r == Reads(reqs[s])
           timeLog == TimeLogModel_findById(r.id, r.user.id)
       IN  IF timeLog = Null THEN Respond(s, r, 404, Null)
           ELSE Respond(s, r, 200, timeLog)
    /\ UNCHANGED <<storeVars, tokens>>

\* updateTimeLog: const existingLog = await this.timeLogModel.findById(id, userId)
UpdateTimeLog_FindById(s) ==
    /\ MayRun(s, "updateTimeLog", "findById")
    /\ LET r == Reads(reqs[s])
           existingLog == TimeLogModel_findById(r.id, r.user.id)
       IN  IF existingLog = Null THEN Respond(s, r, 404, Null)
           ELSE Await(s, r, "update")
    /\ UNCHANGED <<storeVars, tokens>>

\* TimeLogModel.update: const timeLog = await this.findById(id, userId)
UpdateTimeLog_Update(s) ==
    /\ MayRun(s, "updateTimeLog", "update")
    /\ LET r == reqs[s]
           timeLog == TimeLogModel_findById(r.id, r.user.id)
       IN  IF timeLog = Null THEN Respond(s, r, 500, Null)
           ELSE Await(s, [r EXCEPT !.doc = timeLog], "replace")
    /\ UNCHANGED <<storeVars, tokens>>

\* TimeLogModel.update: item(id, userId).replace({ ...timeLog, ...updates })
UpdateTimeLog_Replace(s) ==
    /\ MayRun(s, "updateTimeLog", "replace")
    /\ LET r == reqs[s]
           updatedTimeLog == Spread(r.doc, r.body)
           c == ItemReplace("TimeLogs", timeLogs, r.id, r.user.id, updatedTimeLog)
       IN  /\ timeLogs' = c.container
           /\ IF c.ok THEN Respond(s, Wrote(r), 200, c.resource)
              ELSE Respond(s, r, 500, Null)
    /\ UNCHANGED <<backend, users, projects, nextUserId, nextLogId, tokens>>

\* deleteTimeLog: const existingLog = await this.timeLogModel.findById(id, userId)
DeleteTimeLog_FindById(s) ==
    /\ MayRun(s, "deleteTimeLog", "findById")
    /\ LET r == Reads(reqs[s])
           existingLog == TimeLogModel_findById(r.id, r.user.id)
       IN  IF existingLog = Null THEN Respond(s, r, 404, Null)
           ELSE Await(s, r, "delete")
    /\ UNCHANGED <<storeVars, tokens>>

\* deleteTimeLog: await this.timeLogModel.delete(id, userId)
DeleteTimeLog_Delete(s) ==
    /\ MayRun(s, "deleteTimeLog", "delete")
    /\ LET r == reqs[s]
           c == ItemDelete("TimeLogs", timeLogs, r.id, r.user.id)
       IN  /\ timeLogs' = c.container
           /\ IF c.ok THEN Respond(s, Wrote(r), 200, Null)
              ELSE Respond(s, r, 500, Null)
    /\ UNCHANGED <<backend, users, projects, nextUserId, nextLogId, tokens>>

TimeLogDispatch(s) ==
    \/ DispatchTimeLogDenied(s)
    \/ DispatchCreateTimeLog(s)
    \/ DispatchTimeLogById(s)
    \/ DispatchUpdateTimeLog(s)

TimeLogStep(s) ==
    \/ CreateTimeLog_FindProject(s)
    \/ CreateTimeLog_FindByUser(s)
    \/ CreateTimeLog_Create(s)
    \/ GetTimeLogById_FindById(s)
    \/ UpdateTimeLog_FindById(s)
    \/ UpdateTimeLog_Update(s)
    \/ UpdateTimeLog_Replace(s)
    \/ DeleteTimeLog_FindById(s)
    \/ DeleteTimeLog_Delete(s)

---------------------------------------------------------------------------
(* Initial states *)

\* MockCosmosDBService.initialize: the default admin of the mock store
DefaultAdmin ==
    [id |-> DefaultAdminId, email |-> <<DefaultAdminEmail>>,
     password |-> HashPassword(DefaultAdminPassword), role |-> "super_admin", isActive |-> TRUE]

PasswordIdle == password = <<>> /\ pwResult = Null

MiddlewareIdle ==
    /\ mwRoute = NoRoute /\ mwHeader = Null /\ mwPermission = "none"
    /\ mwStage = [at |-> "idle", k |-> 0]
    /\ mwUser = NoUser /\ mwStatus = 0 /\ mwError = "none"

HttpIdle ==
    /\ reqs = [s \in Slots |-> Idle]
    /\ running = 0

\* no export storage is configured and none of the functions below is called
BlobIdle == blobService = "unconfigured" /\ blobs = <<>>
FilterIdle == fbfArgs = Null /\ fbfResult = Null
CsvIdle == csvRows = <<>> /\ csvText = Null
\* the process once startServer has run: the store client is built and
\* initialized, nothing calls the two accessors from outside a handler
BootIdle ==
    /\ env = Null
    /\ cosmosService = [made |-> 1, state |-> "initialized"]
    /\ callers = <<>>
    /\ server = [pc |-> "listening", loaded |-> 4, error |-> "none"]

\* initializeCosmosDB: the mock service without usable credentials, else Cosmos DB
InitStore ==
    /\ backend \in {"mock", "cosmos"}
    /\ users = IF backend = "mock" THEN <<DefaultAdmin>> ELSE <<>>
    /\ timeLogs = <<>>
    /\ projects = <<>>
    /\ nextUserId = 1
    /\ nextLogId = 1

\* a user who registered through POST /api/auth/register
RegisteredUser(id, email, role) ==
    [id |-> id, email |-> email, password |-> HashPassword(GoodPassword),
     role |-> role, isActive |-> TRUE]

\* two users have registered and hold their tokens; one project exists,
\* assigned to the first of them
InitTimeLogs ==
    /\ BlobIdle /\ FilterIdle /\ CsvIdle /\ BootIdle
    /\ backend \in {"mock", "cosmos"}
    /\ users = (IF backend = "mock" THEN <<DefaultAdmin>> ELSE <<>>)
                  \o <<RegisteredUser(Alice, <<"a", "@x.com">>, "user"),
                        RegisteredUser(Bob, <<"b", "@x.com">>, "user")>>
    /\ timeLogs = <<>>
    /\ projects = <<[id |-> "project_1", assignedUserIds |-> <<Alice>>, isActive |-> TRUE]>>
    /\ nextUserId = 1
    /\ nextLogId = 1
    /\ tokens = {[id |-> Alice, role |-> "user"], [id |-> Bob, role |-> "user"]}
    /\ HttpIdle
    /\ PasswordIdle
    /\ MiddlewareIdle

\* time-log requests, served one after the other
NextTimeLogsSerial ==
    \E s \in Slots :
        \/ (\A t \in Slots : reqs[t] = Idle) /\ TimeLogDispatch(s) /\ UNCHANGED <<pwVars, mwVars, exVars>>
        \/ TimeLogStep(s) /\ UNCHANGED <<pwVars, mwVars, exVars>>
        \/ Close(s) /\ UNCHANGED <<pwVars, mwVars, exVars>>

SpecTimeLogsSerial == InitTimeLogs /\ [][NextTimeLogsSerial]_vars

\* the Cosmos DB backend, where every store call yields to the other requests;
\* the first user holds a token
InitTimeLogsCosmos ==
    /\ BlobIdle /\ FilterIdle /\ CsvIdle /\ BootIdle
    /\ backend = "cosmos"
    /\ users = <<RegisteredUser(Alice, <<"a", "@x.com">>, "user"),
                        RegisteredUser(Bob, <<"b", "@x.com">>, "user")>>
    /\ timeLogs = <<>>
    /\ projects = <<[id |-> "project_1", assignedUserIds |-> <<Alice>>, isActive |-> TRUE]>>
    /\ nextUserId = 1
    /\ nextLogId = 1
    /\ tokens = {[id |-> Alice, role |-> "user"]}
    /\ HttpIdle
    /\ PasswordIdle
    /\ MiddlewareIdle

\* time-log requests, served concurrently
NextTimeLogs ==
    \E s \in Slots :
        \/ TimeLogDispatch(s) /\ UNCHANGED <<pwVars, mwVars, exVars>>
        \/ TimeLogStep(s) /\ UNCHANGED <<pwVars, mwVars, exVars>>
        \/ Close(s) /\ UNCHANGED <<pwVars, mwVars, exVars>>

SpecTimeLogs == InitTimeLogsCosmos /\ [][NextTimeLogs]_vars

---------------------------------------------------------------------------
(* What a client can send to the user routes *)

BodyPasswordMinLength == 8      \* body('password').isLength({ min: 8 })
AdminTimeLogLimit == 100        \* const { ..., limit = 100 } = req.query
SummaryStatsLimit == 1000       \* findByFilters(filters, 1000)

\* a password of eight characters that validatePassword turns down
WeakPassword == <<"p", "a", "s", "s", "w", "o", "r", "d">>
ShortPassword == <<"P", "w", "0", "!">>

\* an e-mail address: its local part letter by letter, then "@" and the domain
DomainParts == {"@x.com"}
EmailInputs == {<<"a", "@x.com">>, <<"A", "@x.com">>, <<"b", "@x.com">>, <<"a">>}
PasswordChoices == {GoodPassword, WeakPassword, ShortPassword}

\* /^[^\s@]+@[^\s@]+\.[^\s@]+$/ : a local part, "@", a dotted domain
ValidateEmail(email) ==
    /\ Len(email) >= 2
    /\ email[Len(email)] \in DomainParts
    /\ \A i \in 1..(Len(email) - 1) : email[i] \notin DomainParts

\* express-validator: isEmail(), and normalizeEmail() which lower-cases
IsEmail(email) == ValidateEmail(email)
NormalizeEmail(email) == ToLowerCase(email)

RegisterBodies == [email : EmailInputs, password : PasswordChoices,
                   role : {Undefined, "admin", "root"}]
CreateUserBodies == [email : EmailInputs, password : {GoodPassword, WeakPassword, ShortPassword},
                     role : {"user", "admin", "root"}]
CreateFirstAdminBodies == [email : EmailInputs, password : {GoodPassword, WeakPassword}]
UpdateUserBodies == {[role |-> "admin"], [isActive |-> FALSE]}
UserIdInputs == {Alice, Bob, "user_0"}

\* req.body after the route's validators ran
Sanitized(body) ==
    IF IsEmail(body.email) THEN [body EXCEPT !.email = NormalizeEmail(body.email)] ELSE body

RegisterValidation(body) ==
    IsEmail(body.email) /\ Len(body.password) >= BodyPasswordMinLength

CreateUserValidation(body) ==
    /\ IsEmail(body.email)
    /\ Len(body.password) >= BodyPasswordMinLength
    /\ body.role \in UserRoles

CreatingOps == {"register", "createUser", "createFirstAdmin"}

\* the run creates at most MaxNewUsers users
MayCreateUser ==
    nextUserId + Cardinality({t \in Slots : /\ reqs[t] # Idle
                                            /\ reqs[t].op \in CreatingOps
                                            /\ reqs[t].pc # "done"}) <= MaxNewUsers

ValidBearer(u) == [scheme |-> "Bearer", nparts |-> 2, token |-> [kind |-> "valid", payload |-> u]]

---------------------------------------------------------------------------
(* routes/auth.ts and AuthController: register, createFirstAdmin *)

\* POST /api/auth/register: registerValidation, then register up to its first await
DispatchRegister(s) ==
    /\ MayDispatch(s)
    /\ MayCreateUser
    /\ \E body \in RegisterBodies :
          LET r == Invoked(NewRequest("register", NoUser, "missing", Undefined, Sanitized(body)))
          IN  IF ~RegisterValidation(body) THEN Respond(s, r, 400, Null)
              ELSE IF ~ValidateEmail(r.body.email) THEN Respond(s, r, 400, Null)
              ELSE IF ~ValidatePassword(r.body.password).isValid
                   THEN Respond(s, r, 400, [errors |-> ValidatePassword(r.body.password).errors])
                   ELSE Await(s, r, "findByEmail")
    /\ UNCHANGED <<storeVars, tokens>>

\* POST /api/auth/create-admin: no validator; createFirstAdmin up to its first await
DispatchCreateFirstAdmin(s) ==
    /\ MayDispatch(s)
    /\ MayCreateUser
    /\ \E body \in CreateFirstAdminBodies :
          Await(s, NewRequest("createFirstAdmin", NoUser, "missing", Undefined, body), "getAdmins")
    /\ UNCHANGED <<storeVars, tokens>>

\* const existingUser = await this.userModel.findByEmail(email)
FindByEmailStep(s, op) ==
    /\ MayRun(s, op, "findByEmail")
    /\ LET r == Reads(reqs[s])
           existingUser == UserModel_findByEmail(r.body.email)
       IN  IF existingUser # Null THEN Respond(s, r, 409, Null)
           ELSE Await(s, r, "hash")
    /\ UNCHANGED <<storeVars, tokens>>

\* const hashedPassword = await AuthService.hashPassword(password)
HashStep(s, op) ==
    /\ MayRun(s, op, "hash")
    /\ Await(s, [reqs[s] EXCEPT !.doc = [hashed |-> HashPassword(reqs[s].body.password)]],
             "create")
    /\ UNCHANGED <<storeVars, tokens>>

\* const user = await this.userModel.create(userData), the token if the handler
\* signs one, and the response
CreateStep(s, op, role, signs) ==
    /\ MayRun(s, op, "create")
    /\ LET r == reqs[s]
           c == ItemsCreate("Users", users,
                            NewUser([email |-> r.body.email, password |-> r.doc.hashed,
                                     role |-> role]))
       IN  /\ users' = c.container
           /\ nextUserId' = nextUserId + 1
           /\ IF c.ok
              THEN /\ tokens' = IF signs THEN tokens \cup {GenerateToken(c.resource)} ELSE tokens
                   /\ Respond(s, Wrote(r), 201,
                              [user |-> WithoutPassword(c.resource),
                               token |-> IF signs THEN GenerateToken(c.resource) ELSE Null])
              ELSE /\ tokens' = tokens
                   /\ Respond(s, r, 500, Null)
    /\ UNCHANGED <<backend, timeLogs, projects, nextLogId>>

Register_FindByEmail(s) == FindByEmailStep(s, "register")
Register_Hash(s) == HashStep(s, "register")
Register_Create(s) == CreateStep(s, "register", reqs[s].body.role, TRUE)

\* createFirstAdmin: await this.userModel.getUsersByRole(UserRole.ADMIN)
CreateFirstAdmin_GetAdmins(s) ==
    /\ MayRun(s, "createFirstAdmin", "getAdmins")
    /\ Await(s, [Reads(reqs[s]) EXCEPT !.doc = [admins |-> Len(UserModel_getUsersByRole("admin"))]],
             "getSuperAdmins")
    /\ UNCHANGED <<storeVars, tokens>>

\* createFirstAdmin: await this.userModel.getUsersByRole(UserRole.SUPER_ADMIN),
\* then the checks up to findByEmail
CreateFirstAdmin_GetSuperAdmins(s) ==
    /\ MayRun(s, "createFirstAdmin", "getSuperAdmins")
    /\ LET r == reqs[s]
           existingSuperAdmins == UserModel_getUsersByRole("super_admin")
       IN  IF r.doc.admins > 0 \/ Len(existingSuperAdmins) > 0 THEN Respond(s, r, 403, Null)
           ELSE IF ~ValidateEmail(r.body.email) THEN Respond(s, r, 400, Null)
           ELSE IF ~ValidatePassword(r.body.password).isValid THEN Respond(s, r, 400, Null)
           ELSE Await(s, r, "findByEmail")
    /\ UNCHANGED <<storeVars, tokens>>

CreateFirstAdmin_FindByEmail(s) == FindByEmailStep(s, "createFirstAdmin")
CreateFirstAdmin_Hash(s) == HashStep(s, "createFirstAdmin")
CreateFirstAdmin_Create(s) == CreateStep(s, "createFirstAdmin", "super_admin", TRUE)

---------------------------------------------------------------------------
(* routes/admin.ts, AdminController and AdminTimeLogController *)

AdminUserOps == {"getAllUsers", "createUser", "updateUser", "deleteUser", "toggleUserStatus"}
AdminTimeLogOps == {"getAllTimeLogs", "getTimeLogsByUser", "getSummaryStats"}

\* the middleware mounted before the user and time-log routes of the admin
\* router: router.use(authenticateToken); router.use(requireAdmin) is commented out
AdminMiddleware(authHeader) == AuthenticateToken(authHeader)

\* the admin router turns the request down
DispatchAdminDenied(s) ==
    /\ MayDispatch(s)
    /\ \E op \in AdminUserOps \cup AdminTimeLogOps, h \in Headers(tokens) :
          /\ ~AdminMiddleware(h).next
          /\ Respond(s, NewRequest(op, NoUser, TokenKindOf(h), Undefined, NoBody),
                     AdminMiddleware(h).status, Null)
    /\ UNCHANGED <<storeVars, tokens>>

\* POST /api/admin/users: createUserValidation, then createUser up to its first await
DispatchCreateUser(s) ==
    /\ MayDispatch(s)
    /\ MayCreateUser
    /\ \E u \in tokens, body \in CreateUserBodies :
          LET a == AdminMiddleware(ValidBearer(u))
              r == Invoked(NewRequest("createUser", a.user, "valid", Undefined, Sanitized(body)))
          IN  /\ a.next
              /\ IF ~CreateUserValidation(body) THEN Respond(s, r, 400, Null)
                 ELSE Await(s, r, "findByEmail")
    /\ UNCHANGED <<storeVars, tokens>>

CreateUser_FindByEmail(s) == FindByEmailStep(s, "createUser")
CreateUser_Hash(s) == HashStep(s, "createUser")
CreateUser_Create(s) == CreateStep(s, "createUser", reqs[s].body.role, FALSE)

\* GET /api/admin/users, /time-logs, /time-logs/summary up to the first await
DispatchAdminList(s) ==
    /\ MayDispatch(s)
    /\ \E u \in tokens :
          LET a == AdminMiddleware(ValidBearer(u))
          IN  /\ a.next
              /\ \/ Await(s, NewRequest("getAllUsers", a.user, "valid", Undefined, NoBody),
                          "findAll")
                 \/ Await(s, NewRequest("getSummaryStats", a.user, "valid", Undefined, NoBody),
                          "findByFilters")
                 \/ \E userId \in {Undefined, Alice} :
                       Await(s, NewRequest("getAllTimeLogs", a.user, "valid", Undefined,
                                           [userId |-> userId, projectId |-> Undefined]),
                             "findByFilters")
    /\ UNCHANGED <<storeVars, tokens>>

\* PUT, DELETE, PATCH /api/admin/users/:id and GET /api/admin/time-logs/user/:userId
\* up to the first await
DispatchAdminById(s) ==
    /\ MayDispatch(s)
    /\ \E u \in tokens, id \in UserIdInputs :
          LET a == AdminMiddleware(ValidBearer(u))
          IN  /\ a.next
              /\ \/ \E body \in UpdateUserBodies :
                       Await(s, NewRequest("updateUser", a.user, "valid", id, body), "findById")
                 \/ Await(s, NewRequest("deleteUser", a.user, "valid", id, NoBody), "delete")
                 \/ Await(s, NewRequest("toggleUserStatus", a.user, "valid", id, NoBody),
                          "findById")
                 \/ Await(s, NewRequest("getTimeLogsByUser", a.user, "valid", id,
                                        [userId |-> id, projectId |-> Undefined]),
                          "findById")
    /\ UNCHANGED <<storeVars, tokens>>

\* getAllUsers: await this.userModel.findAll()
GetAllUsers_FindAll(s) ==
    /\ MayRun(s, "getAllUsers", "findAll")
    /\ LET found == UserModel_findAll
       IN  Respond(s, Reads(reqs[s]), 200,
                   [users |-> [i \in 1..Len(found) |-> WithoutPassword(found[i])]])
    /\ UNCHANGED <<storeVars, tokens>>

\* updateUser, in UserModel.update: const user = await this.findById(id)
UpdateUser_FindById(s) ==
    /\ MayRun(s, "updateUser", "findById")
    /\ LET r == Reads(reqs[s])
           user == UserModel_findById(r.id)
       IN  IF user = Null THEN Respond(s, r, 404, Null)
           ELSE Await(s, [r EXCEPT !.doc = user], "replace")
    /\ UNCHANGED <<storeVars, tokens>>

\* updateUser, in UserModel.update: item(id, id).replace({ ...user, ...updates })
UpdateUser_Replace(s) ==
    /\ MayRun(s, "updateUser", "replace")
    /\ LET r == reqs[s]
           c == ItemReplace("Users", users, r.id, r.id, Spread(r.doc, r.body))
       IN  /\ users' = c.container
           /\ IF c.ok THEN Respond(s, Wrote(r), 200, [user |-> WithoutPassword(c.resource)])
              ELSE Respond(s, r, 404, Null)
    /\ UNCHANGED <<backend, timeLogs, projects, nextUserId, nextLogId, tokens>>

\* a deletion that also removes the user's time logs
DeleteUser_DeleteCascading(s) ==
    /\ MayRun(s, "deleteUser", "delete")
    /\ LET r == reqs[s]
           c == ItemDelete("Users", users, r.id, r.id)
       IN  /\ users' = c.container
           /\ timeLogs' = IF c.ok THEN SelectSeq(timeLogs, LAMBDA t : t.userId # r.id)
                          ELSE timeLogs
           /\ IF c.ok THEN Respond(s, Wrote(r), 200, Null)
              ELSE Respond(s, r, 404, Null)
    /\ UNCHANGED <<backend, projects, nextUserId, nextLogId, tokens>>

\* deleteUser: await this.userModel.delete(userId)
DeleteUser_Delete(s) ==
    /\ MayRun(s, "deleteUser", "delete")
    /\ LET r == reqs[s]
           c == ItemDelete("Users", users, r.id, r.id)
       IN  /\ users' = c.container
           /\ IF c.ok THEN Respond(s, Wrote(r), 200, Null)
              ELSE Respond(s, r, 404, Null)
    /\ UNCHANGED <<backend, timeLogs, projects, nextUserId, nextLogId, tokens>>

\* toggleUserStatus: const user = await this.userModel.findById(userId)
ToggleUserStatus_FindById(s) ==
    /\ MayRun(s, "toggleUserStatus", "findById")
    /\ LET r == Reads(reqs[s])
           user == UserModel_findById(r.id)
       IN  IF user = Null THEN Respond(s, r, 404, Null)
           ELSE Await(s, [r EXCEPT !.body = [isActive |-> ~user.isActive]], "update")
    /\ UNCHANGED <<storeVars, tokens>>

\* toggleUserStatus, in UserModel.update: const user = await this.findById(id);
\* of a null result the handler destructures updatedUser!, a TypeError
ToggleUserStatus_Update(s) ==
    /\ MayRun(s, "toggleUserStatus", "update")
    /\ LET r == reqs[s]
           user == UserModel_findById(r.id)
       IN  IF user = Null THEN Respond(s, r, 500, Null)
           ELSE Await(s, [r EXCEPT !.doc = user], "replace")
    /\ UNCHANGED <<storeVars, tokens>>

\* toggleUserStatus, in UserModel.update: item(id, id).replace({ ...user, isActive })
ToggleUserStatus_Replace(s) ==
    /\ MayRun(s, "toggleUserStatus", "replace")
    /\ LET r == reqs[s]
           c == ItemReplace("Users", users, r.id, r.id, Spread(r.doc, r.body))
       IN  /\ users' = c.container
           /\ IF c.ok THEN Respond(s, Wrote(r), 200, [user |-> WithoutPassword(c.resource)])
              ELSE Respond(s, r, 500, Null)
    /\ UNCHANGED <<backend, timeLogs, projects, nextUserId, nextLogId, tokens>>

\* getAllTimeLogs: await this.timeLogModel.findByFilters(filters, Number(limit))
GetAllTimeLogs_FindByFilters(s) ==
    /\ MayRun(s, "getAllTimeLogs", "findByFilters")
    /\ LET r == Reads(reqs[s])
       IN  Await(s, [r EXCEPT !.doc = [timeLogs |->
                                        TimeLogModel_findByFilters(r.body, AdminTimeLogLimit)]],
                 "findUsers")
    /\ UNCHANGED <<storeVars, tokens>>

\* getAllTimeLogs: await Promise.all(timeLogs.map(log => this.userModel.findById(log.userId)))
GetAllTimeLogs_FindUsers(s) ==
    /\ MayRun(s, "getAllTimeLogs", "findUsers")
    /\ LET r == reqs[s]
           logs == r.doc.timeLogs
           user(i) == UserModel_findById(logs[i].userId)
       IN  Respond(s, r, 200,
                   [timeLogs |-> [i \in 1..Len(logs) |->
                                    [log |-> logs[i],
                                     user |-> IF user(i) = Null THEN Null
                                              ELSE [id |-> user(i).id, email |-> user(i).email]]],
                    totalHours |-> SumHours(logs)])
    /\ UNCHANGED <<storeVars, tokens>>

\* getTimeLogsByUser: const user = await this.userModel.findById(userId)
GetTimeLogsByUser_FindById(s) ==
    /\ MayRun(s, "getTimeLogsByUser", "findById")
    /\ LET r == Reads(reqs[s])
           user == UserModel_findById(r.id)
       IN  IF user = Null THEN Respond(s, r, 404, Null)
           ELSE Await(s, [r EXCEPT !.doc = [user |-> [id |-> user.id, email |-> user.email]]],
                      "findByFilters")
    /\ UNCHANGED <<storeVars, tokens>>

\* getTimeLogsByUser: await this.timeLogModel.findByFilters(filters, Number(limit))
GetTimeLogsByUser_FindByFilters(s) ==
    /\ MayRun(s, "getTimeLogsByUser", "findByFilters")
    /\ LET r == reqs[s]
       IN  Await(s, [r EXCEPT !.doc = [user |-> r.doc.user, timeLogs |->
                                        TimeLogModel_findByFilters(r.body, AdminTimeLogLimit)]],
                 "getTotalHours")
    /\ UNCHANGED <<storeVars, tokens>>

\* getTimeLogsByUser: await this.timeLogModel.getTotalHoursByUser(userId)
GetTimeLogsByUser_GetTotalHours(s) ==
    /\ MayRun(s, "getTimeLogsByUser", "getTotalHours")
    /\ LET r == reqs[s]
       IN  Respond(s, r, 200, [timeLogs |-> r.doc.timeLogs, user |-> r.doc.user,
                               totalHours |-> TimeLogModel_getTotalHoursByUser(r.id)])
    /\ UNCHANGED <<storeVars, tokens>>

\* getSummaryStats: await this.timeLogModel.findByFilters(filters, 1000)
GetSummaryStats_FindByFilters(s) ==
    /\ MayRun(s, "getSummaryStats", "findByFilters")
    /\ LET r == Reads(reqs[s])
       IN  Await(s, [r EXCEPT !.doc = [timeLogs |->
                        TimeLogModel_findByFilters([userId |-> Undefined], SummaryStatsLimit)]],
                 "findAll")
    /\ UNCHANGED <<storeVars, tokens>>

\* getSummaryStats: await this.userModel.findAll(), then the statistics
GetSummaryStats_FindAll(s) ==
    /\ MayRun(s, "getSummaryStats", "findAll")
    /\ LET r == reqs[s]
           logs == r.doc.timeLogs
           found == UserModel_findAll
       IN  Respond(s, r, 200,
                   [totalHours |-> SumHours(logs),
                    totalLogs |-> Len(logs),
                    activeUsers |-> Len(SelectSeq(found, LAMBDA u : u.isActive)),
                    totalUsers |-> Len(found)])
    /\ UNCHANGED <<storeVars, tokens>>

AdminDispatch(s) ==
    \/ DispatchAdminDenied(s)
    \/ DispatchCreateUser(s)
    \/ DispatchAdminList(s)
    \/ DispatchAdminById(s)

AdminStep(s) ==
    \/ CreateUser_FindByEmail(s)
    \/ CreateUser_Hash(s)
    \/ CreateUser_Create(s)
    \/ GetAllUsers_FindAll(s)
    \/ UpdateUser_FindById(s)
    \/ UpdateUser_Replace(s)
    \/ DeleteUser_Delete(s)
    \/ ToggleUserStatus_FindById(s)
    \/ ToggleUserStatus_Update(s)
    \/ ToggleUserStatus_Replace(s)
    \/ GetAllTimeLogs_FindByFilters(s)
    \/ GetAllTimeLogs_FindUsers(s)
    \/ GetTimeLogsByUser_FindById(s)
    \/ GetTimeLogsByUser_FindByFilters(s)
    \/ GetTimeLogsByUser_GetTotalHours(s)
    \/ GetSummaryStats_FindByFilters(s)
    \/ GetSummaryStats_FindAll(s)

UserDispatch(s) ==
    \/ DispatchRegister(s)
    \/ DispatchCreateFirstAdmin(s)
    \/ DispatchCreateUser(s)

UserStep(s) ==
    \/ Register_FindByEmail(s)
    \/ Register_Hash(s)
    \/ Register_Create(s)
    \/ CreateFirstAdmin_GetAdmins(s)
    \/ CreateFirstAdmin_GetSuperAdmins(s)
    \/ CreateFirstAdmin_FindByEmail(s)
    \/ CreateFirstAdmin_Hash(s)
    \/ CreateFirstAdmin_Create(s)
    \/ CreateUser_FindByEmail(s)
    \/ CreateUser_Hash(s)
    \/ CreateUser_Create(s)

\* Alice (user) and Bob (admin) have registered and hold their tokens; Alice
\* has logged one day
InitAdmin ==
    /\ BlobIdle /\ FilterIdle /\ CsvIdle /\ BootIdle
    /\ backend \in {"mock", "cosmos"}
    /\ users = (IF backend = "mock" THEN <<DefaultAdmin>> ELSE <<>>)
                  \o <<RegisteredUser(Alice, <<"a", "@x.com">>, "user"),
                       RegisteredUser(Bob, <<"b", "@x.com">>, "admin")>>
    /\ timeLogs = <<[id |-> "timelog_a", userId |-> Alice, projectId |-> Undefined,
                     date |-> [day |-> 1, isDate |-> backend = "mock"], hours |-> 80]>>
    /\ projects = <<>>
    /\ nextUserId = 1
    /\ nextLogId = 1
    /\ tokens = {[id |-> Alice, role |-> "user"], [id |-> Bob, role |-> "admin"]}
    /\ HttpIdle
    /\ PasswordIdle
    /\ MiddlewareIdle

\* requests to the admin router, served one after the other
NextAdminSerial ==
    \E s \in Slots :
        \/ (\A t \in Slots : reqs[t] = Idle) /\ AdminDispatch(s) /\ UNCHANGED <<pwVars, mwVars, exVars>>
        \/ AdminStep(s) /\ UNCHANGED <<pwVars, mwVars, exVars>>
        \/ Close(s) /\ UNCHANGED <<pwVars, mwVars, exVars>>

SpecAdminSerial == InitAdmin /\ [][NextAdminSerial]_vars

\* a store no request has written to yet, and nobody holds a token
InitUsers ==
    /\ BlobIdle /\ FilterIdle /\ CsvIdle /\ BootIdle
    /\ InitStore
    /\ tokens = {}
    /\ HttpIdle
    /\ PasswordIdle
    /\ MiddlewareIdle

\* register, createFirstAdmin and admin createUser requests, served concurrently
NextUsers ==
    \E s \in Slots :
        \/ UserDispatch(s) /\ UNCHANGED <<pwVars, mwVars, exVars>>
        \/ UserStep(s) /\ UNCHANGED <<pwVars, mwVars, exVars>>
        \/ Close(s) /\ UNCHANGED <<pwVars, mwVars, exVars>>

SpecUsers == InitUsers /\ [][NextUsers]_vars

---------------------------------------------------------------------------
(* Properties of the time-log routes *)

\* C1: GET /api/time-logs/:id by a caller of role user, naming a TimeLog whose
\* userId is not the caller's id, is answered 404 or 403 and never returns the
\* record, on either backend.
C1_ForeignReadIs404 ==
    \A s \in Slots :
        (/\ Done(s) /\ reqs[s].op = "getTimeLogById"
         /\ reqs[s].user.role = "user" /\ reqs[s].foreign)
            => (reqs[s].status \in {403, 404} /\ reqs[s].data = Null)

\* C2: PUT (with a body the validators accept) and DELETE /api/time-logs/:id
\* by an authenticated caller, naming a TimeLog that another user owns, are
\* answered 404 and write nothing to the store.
C2_ForeignWriteIs404 ==
    \A s \in Slots :
        (/\ Done(s) /\ reqs[s].op \in {"updateTimeLog", "deleteTimeLog"}
         /\ reqs[s].tokenKind = "valid" /\ reqs[s].foreign /\ reqs[s].status # 400)
            => (reqs[s].status = 404 /\ ~reqs[s].wrote)

\* C4: of the createTimeLog requests of one user served one after the other
\* (valid, and not turned down over the project), the one whose date and
\* project the user holds no TimeLog of is answered 201 and stored, and the
\* one whose date and project the user already holds a TimeLog of is answered
\* 409 and stores nothing, whatever other TimeLogs the user holds.
C4_DuplicateIs409 ==
    \A s \in Slots :
        (/\ Done(s) /\ reqs[s].op = "createTimeLog"
         /\ reqs[s].invoked /\ reqs[s].status \notin {400, 403, 404})
            => IF reqs[s].duplicate
               THEN reqs[s].status = 409 /\ ~reqs[s].wrote
               ELSE reqs[s].status = 201 /\ reqs[s].wrote

\* C5: under any interleaving of create, update and delete requests no user
\* holds two TimeLogs of the same calendar date and the same project.
C5_NoTwoLogsSameDateProject ==
    \A i, j \in 1..Len(timeLogs) :
        (/\ i # j
         /\ timeLogs[i].userId = timeLogs[j].userId
         /\ timeLogs[i].date.day = timeLogs[j].date.day
         /\ timeLogs[i].projectId = timeLogs[j].projectId) => FALSE

\* C6: updateTimeLog, called by the owner of the TimeLog it names, changes
\* neither the userId nor the id of any stored TimeLog, whatever fields the
\* request body carries.
C6_UpdateKeepsOwnerAndId ==
    [][\A s \in Slots :
          (MayRun(s, "updateTimeLog", "replace") /\ ~reqs[s].foreign)
              => /\ Len(timeLogs') = Len(timeLogs)
                 /\ \A i \in 1..Len(timeLogs) :
                       /\ timeLogs'[i].userId = timeLogs[i].userId
                       /\ timeLogs'[i].id = timeLogs[i].id]_vars

---------------------------------------------------------------------------
(* AuthService.validatePassword on its own *)

MaxCoreLen == 4     \* characters of a password that are drawn freely

\* one character of each class of validatePassword, and one of none ("_")
PasswordAlphabet == {"A", "a", "1", "!", "_"}

\* "_" repeated n times
Padding(n) == [i \in 1..n |-> "_"]

\* lengths of padding: none, up to one short of the minimum length, up to the
\* minimum length, and the minimum length itself
PaddingLengths ==
    {0, MinPasswordLength - MaxCoreLen - 1, MinPasswordLength - MaxCoreLen, MinPasswordLength}

PasswordInputs ==
    {core \o Padding(n) :
        core \in UNION {[1..k -> PasswordAlphabet] : k \in 0..MaxCoreLen},
        n \in {m \in PaddingLengths : m >= 0}}

\* the server is up and serves no request
ServerIdle ==
    /\ backend = "mock"
    /\ users = <<DefaultAdmin>>
    /\ timeLogs = <<>>
    /\ projects = <<>>
    /\ nextUserId = 1
    /\ nextLogId = 1
    /\ tokens = {}
    /\ HttpIdle

InitPassword ==
    /\ BlobIdle /\ FilterIdle /\ CsvIdle /\ BootIdle
    /\ ServerIdle
    /\ MiddlewareIdle
    /\ password \in PasswordInputs
    /\ pwResult = Null

ValidatePasswordCall ==
    /\ pwResult = Null
    /\ pwResult' = ValidatePassword(password)
    /\ UNCHANGED <<exVars, storeVars, httpVars, mwVars, password>>

NextPassword == ValidatePasswordCall

SpecPassword == InitPassword /\ [][NextPassword]_vars

\* the rules a password violates, each by its message
ViolatedRules(pw) ==
    {m \in {ErrTooShort, ErrNoUpper, ErrNoLower, ErrNoDigit, ErrNoSpecial} :
        \/ m = ErrTooShort /\ Len(pw) < 8
        \/ m = ErrNoUpper /\ \A i \in 1..Len(pw) : pw[i] \notin UpperCaseChars
        \/ m = ErrNoLower /\ \A i \in 1..Len(pw) : pw[i] \notin LowerCaseChars
        \/ m = ErrNoDigit /\ \A i \in 1..Len(pw) : pw[i] \notin DigitChars
        \/ m = ErrNoSpecial /\ \A i \in 1..Len(pw) : pw[i] \notin SpecialChars}

\* C8: validatePassword returns isValid = true exactly when the password has
\* length >= 8 and contains an uppercase letter, a lowercase letter, a digit
\* and a symbol (a character of the class the code tests); otherwise errors
\* holds the message of every violated rule, once, and of no satisfied rule.
C8_ValidatePasswordReportsAll ==
    pwResult # Null =>
        /\ pwResult.isValid <=> (ViolatedRules(password) = {})
        /\ {pwResult.errors[i] : i \in 1..Len(pwResult.errors)} = ViolatedRules(password)
        /\ Len(pwResult.errors) = Cardinality(ViolatedRules(password))

\* a password that violates two rules at once has been validated
C8_Witness ==
    /\ pwResult # Null
    /\ ~pwResult.isValid
    /\ Len(password) >= 8
    /\ Len(pwResult.errors) >= 2

---------------------------------------------------------------------------
(* AuthService.hasPermission behind requirePermission *)

\* the permission strings of the rolePermissions table, and one of no role
PermissionInputs ==
    {"manage_users", "manage_projects", "view_all_logs", "export_data", "manage_roles",
     "view_own_logs", "create_logs", "edit_own_logs", "delete_own_logs", "unknown"}

\* req.user as authenticateToken leaves it: a token's payload, or not set
RequestUsers ==
    [id : {Alice, Bob}, role : UserRoles] \cup {NoUser}

InitPermission ==
    /\ BlobIdle /\ FilterIdle /\ CsvIdle /\ BootIdle
    /\ ServerIdle
    /\ PasswordIdle
    /\ mwRoute = NoRoute
    /\ mwHeader = Null
    /\ mwPermission \in PermissionInputs
    /\ mwStage = [at |-> "idle", k |-> 0]
    /\ mwUser \in RequestUsers
    /\ mwStatus = 0
    /\ mwError = "none"

\* requirePermission(mwPermission)(req, res, next)
RequirePermissionCall ==
    /\ mwStage.at = "idle"
    /\ LET r == RequirePermission(mwPermission, mwUser)
       IN  /\ mwStatus' = r.status
           /\ mwStage' = [at |-> IF r.next THEN "handler" ELSE "rejected", k |-> 0]
    /\ UNCHANGED <<exVars, storeVars, httpVars, pwVars, mwRoute, mwHeader, mwPermission, mwUser, mwError>>

NextPermission == RequirePermissionCall

SpecPermission == InitPermission /\ [][NextPermission]_vars

\* C7: permission scopes are nested by role: whatever permission a user has an
\* admin has, and whatever permission an admin has a super_admin has.
C7_PermissionsNested ==
    /\ HasPermission("user", mwPermission) => HasPermission("admin", mwPermission)
    /\ HasPermission("admin", mwPermission) => HasPermission("super_admin", mwPermission)

---------------------------------------------------------------------------
(* The routers and the middleware each route runs before its handler *)

Route(router, route, chain) == [router |-> router, route |-> route, chain |-> chain]

\* routes/auth.ts
AuthRoutes ==
    {Route("auth", rt, <<>>) : rt \in {"POST /register", "POST /login", "POST /create-admin"}}
        \cup {Route("auth", rt, <<"authenticateToken">>) :
                rt \in {"GET /profile", "PUT /profile", "PUT /change-password"}}

\* routes/timeLogs.ts: router.use(authenticateToken) comes first
TimeLogRoutes ==
    {Route("timeLogs", rt, <<"authenticateToken">>) :
        rt \in {"POST /", "GET /", "GET /total-hours", "GET /date-range",
                "GET /:id", "PUT /:id", "DELETE /:id"}}

\* routes/admin.ts: the project routes and the debug route are registered before
\* router.use(authenticateToken), the user and time-log routes after it
AdminRoutes ==
    {Route("admin", rt, <<>>) :
        rt \in {"POST /projects/test", "GET /projects", "GET /projects/:id", "POST /projects",
                "PUT /projects/:id", "DELETE /projects/:id",
                "POST /projects/:projectId/assign/:userId",
                "DELETE /projects/:projectId/remove/:userId",
                "GET /users/:userId/projects", "GET /debug/users"}}
        \cup {Route("admin", rt, <<"authenticateToken">>) :
                rt \in {"GET /users", "POST /users", "PUT /users/:id", "DELETE /users/:id",
                        "PATCH /users/:id/toggle-status", "GET /time-logs",
                        "GET /time-logs/user/:userId", "GET /time-logs/summary"}}

\* routes/exports.ts
ExportRoutes ==
    {Route("exports", "POST /time-logs", <<"authenticateToken">>)}
        \cup {Route("exports", rt, <<"authenticateToken", "requireAdmin">>) :
                rt \in {"POST /users", "POST /projects", "GET /stats"}}

Routes == AuthRoutes \cup TimeLogRoutes \cup AdminRoutes \cup ExportRoutes

\* the routes that authenticate their caller
AuthenticatedRoutes == {rt \in Routes : rt.chain # <<>>}

\* payloads of the tokens presented to the middleware chain
TokenPayloads == [id : {Alice}, role : UserRoles]

InitMiddleware ==
    /\ BlobIdle /\ FilterIdle /\ CsvIdle /\ BootIdle
    /\ ServerIdle
    /\ PasswordIdle
    /\ mwRoute \in Routes
    /\ mwHeader \in Headers(TokenPayloads)
    /\ mwPermission = "none"
    /\ mwStage = [at |-> "chain", k |-> 1]
    /\ mwUser = NoUser
    /\ mwStatus = 0
    /\ mwError = "none"

\* the middleware the chain runs next
MwAt(name) ==
    /\ mwStage.at = "chain"
    /\ mwStage.k <= Len(mwRoute.chain)
    /\ mwRoute.chain[mwStage.k] = name

MwOutcome(r) ==
    /\ mwStatus' = r.status
    /\ mwStage' = IF r.next THEN [at |-> "chain", k |-> mwStage.k + 1]
                  ELSE [at |-> "rejected", k |-> mwStage.k]

\* authenticateToken(req, res, next)
MwAuthenticateToken ==
    /\ MwAt("authenticateToken")
    /\ LET token == ExtractTokenFromHeader(mwHeader)
           a == AuthenticateToken(mwHeader)
       IN  /\ mwError' = IF token = Null THEN "none" ELSE VerifyToken(token).error
           /\ mwUser' = a.user
           /\ MwOutcome(a)
    /\ UNCHANGED <<exVars, storeVars, httpVars, pwVars, mwRoute, mwHeader, mwPermission>>

\* requireAdmin(req, res, next)
MwRequireAdmin ==
    /\ MwAt("requireAdmin")
    /\ MwOutcome(RequireRole({"admin", "super_admin"}, mwUser))
    /\ UNCHANGED <<exVars, storeVars, httpVars, pwVars, mwRoute, mwHeader, mwPermission, mwUser, mwError>>

\* the chain is through: the route's handler is invoked
MwHandler ==
    /\ mwStage.at = "chain"
    /\ mwStage.k = Len(mwRoute.chain) + 1
    /\ mwStage' = [at |-> "handler", k |-> mwStage.k]
    /\ UNCHANGED <<exVars, storeVars, httpVars, pwVars, mwRoute, mwHeader, mwPermission, mwUser,
                   mwStatus, mwError>>

NextMiddleware ==
    \/ MwAuthenticateToken
    \/ MwRequireAdmin
    \/ MwHandler

SpecMiddleware == InitMiddleware /\ [][NextMiddleware]_vars

\* the token a request presents is missing, malformed, wrongly signed or expired
PresentsNoValidToken ==
    TokenKindOf(mwHeader) \in {"missing", "malformed", "badsig", "expired"}

\* C9: verifyToken fails with the one error 'Invalid token' for a malformed
\* token, a wrongly signed token and an expired token alike; on every
\* authenticated route a request whose token is missing, malformed or expired
\* is answered 401 and its handler is never invoked.
C9_InvalidTokenIs401 ==
    (mwRoute \in AuthenticatedRoutes /\ PresentsNoValidToken) =>
        /\ mwStage.at # "handler"
        /\ mwStage.at = "rejected" =>
              /\ mwStatus = 401
              /\ TokenKindOf(mwHeader) # "missing" => mwError = "Invalid token"
        /\ mwStage.at = "chain" => mwStage.k = 1

\* an expired token has been turned down on an authenticated route
C9_Witness ==
    /\ mwRoute \in AuthenticatedRoutes
    /\ TokenKindOf(mwHeader) = "expired"
    /\ mwStage.at = "rejected"
    /\ mwStatus = 401
    /\ mwError = "Invalid token"

---------------------------------------------------------------------------
(* Properties of the user routes *)

\* C3: a request with a valid token of role user to a user-management route or
\* an admin time-log route (its body one the validators accept) is answered
\* 403, and its handler reads and writes nothing of the store.
C3_UserTokenIs403 ==
    \A s \in Slots :
        (/\ Done(s)
         /\ reqs[s].op \in AdminUserOps \cup AdminTimeLogOps
         /\ reqs[s].tokenKind = "valid"
         /\ reqs[s].user.role = "user"
         /\ reqs[s].status # 400)
            => (reqs[s].status = 403 /\ ~reqs[s].reads /\ ~reqs[s].wrote)

\* C10: under any interleaving of register, admin createUser and
\* createFirstAdmin requests no two stored users have e-mail addresses that
\* are equal letter case aside, and a registration whose (valid) body carries
\* an address in use is answered 409 and creates no user.
C10_EmailsUnique ==
    /\ \A i, j \in 1..Len(users) :
          i # j => ToLowerCase(users[i].email) # ToLowerCase(users[j].email)
    /\ \A s \in Slots :
          (Done(s) /\ reqs[s].op = "register" /\ reqs[s].taken /\ reqs[s].status # 400)
              => (reqs[s].status = 409 /\ ~reqs[s].wrote)

---------------------------------------------------------------------------
(* routes/exports.ts, ExportController and AzureBlobStorageService *)

MaxBlobs == 2               \* export objects uploaded in one run
ExportLimit == 10000        \* findByFilters(filters, 10000)

\* what initializeBlobStorage leaves in blobStorageService: a service without
\* container client (no connection string), one with container client but
\* without the account name and key generateSASUrl reads, or one with all three
BlobServices == {"unconfigured", "nocredentials", "configured"}

ExportOps == {"exportTimeLogs", "exportUsers", "exportProjects"}

\* req.body of POST /api/exports/time-logs (a date left out is written 0)
ExportBodies ==
    [format : {"csv", "excel", "pdf"}, userId : {Undefined, Alice, Bob},
     projectId : {Undefined, "project_1"}, startDate : {0}, endDate : {0, 1}]

\* ExportController.exportValidation
ExportValidation(body) == body.format \in {"csv", "excel"}

\* the filters exportTimeLogs builds from the body
ExportFilters(body) ==
    [userId |-> body.userId, projectId |-> body.projectId,
     startDate |-> body.startDate, endDate |-> body.endDate]

\* router.use(authenticateToken) turns the request down
DispatchExportDenied(s) ==
    /\ MayDispatch(s)
    /\ \E op \in ExportOps, h \in BadHeaders(tokens) :
          Respond(s, NewRequest(op, NoUser, TokenKindOf(h), Undefined, NoBody),
                  AuthenticateToken(h).status, Null)
    /\ UNCHANGED <<storeVars, tokens, blobVars>>

\* POST /api/exports/time-logs: exportValidation, then exportTimeLogs up to its
\* first await
DispatchExportTimeLogs(s) ==
    /\ MayDispatch(s)
    /\ \E u \in tokens, body \in ExportBodies :
          LET a == AuthenticateToken(ValidBearer(u))
              r == Invoked(NewRequest("exportTimeLogs", a.user, "valid", Undefined, body))
          IN  /\ a.next
              /\ IF ~ExportValidation(body) THEN Respond(s, r, 400, Null)
                 ELSE IF /\ r.user.role = "user"
                         /\ body.userId # Undefined
                         /\ body.userId # r.user.id
                      THEN Respond(s, r, 403, Null)
                      ELSE Await(s, r, "findByFilters")
    /\ UNCHANGED <<storeVars, tokens, blobVars>>

\* POST /api/exports/users and /projects: requireRole([ADMIN, SUPER_ADMIN]), then
\* the handler's own role check, up to its first await
DispatchExportAdmin(s) ==
    /\ MayDispatch(s)
    /\ \E op \in {"exportUsers", "exportProjects"}, u \in tokens :
          LET a == AuthenticateToken(ValidBearer(u))
              g == RequireRole({"admin", "super_admin"}, a.user)
              r == NewRequest(op, a.user, "valid", Undefined, [format |-> "csv"])
          IN  /\ a.next
              /\ IF ~g.next THEN Respond(s, r, g.status, Null)
                 ELSE IF r.user.role \notin {"admin", "super_admin"}
                      THEN Respond(s, Invoked(r), 403, Null)
                      ELSE Await(s, r, "findAll")
    /\ UNCHANGED <<storeVars, tokens, blobVars>>

\* exportTimeLogs: await this.timeLogModel.findByFilters(filters, 10000)
ExportTimeLogs_FindByFilters(s) ==
    /\ MayRun(s, "exportTimeLogs", "findByFilters")
    /\ LET r == Reads(reqs[s])
           logs == TimeLogModel_findByFilters(ExportFilters(r.body), ExportLimit)
       IN  IF Len(logs) = 0 THEN Respond(s, r, 404, Null)
           ELSE Await(s, [r EXCEPT !.doc = [rows |-> logs]], "enrich")
    /\ UNCHANGED <<storeVars, tokens, blobVars>>

\* exportUsers: await this.userModel.findAll();
\* exportProjects: await this.projectModel.getAll()
Export_FindAll(s) ==
    /\ \E op \in {"exportUsers", "exportProjects"} : MayRun(s, op, "findAll")
    /\ LET r == Reads(reqs[s])
           rows == IF r.op = "exportUsers" THEN UserModel_findAll
                   ELSE IF backend = "mock" THEN projects ELSE Reverse(projects)
       IN  IF Len(rows) = 0 THEN Respond(s, r, 404, Null)
           ELSE Await(s, [r EXCEPT !.doc = [rows |-> rows]], "enrich")
    /\ UNCHANGED <<storeVars, tokens, blobVars>>

\* enrichTimeLogData (and the lookups of exportProjects), then getBlobStorage()
\* and exportData up to blockBlobClient.upload: a service without container
\* client throws 'Azure Blob Storage not configured', which the handler's catch
\* answers with 500
Export_Enrich(s) ==
    /\ \E op \in ExportOps : MayRun(s, op, "enrich")
    /\ LET r == reqs[s]
       IN  IF blobService = "none" THEN Respond(s, r, 503, Null)
           ELSE IF blobService = "unconfigured" THEN Respond(s, r, 500, Null)
           ELSE Await(s, r, "upload")
    /\ UNCHANGED <<storeVars, tokens, blobVars>>

\* the rows of an export whose TimeLog belongs to each user
RowOwners(r) ==
    IF r.op = "exportTimeLogs" THEN {r.doc.rows[i].userId : i \in 1..Len(r.doc.rows)}
    ELSE {}

\* exportData: await blockBlobClient.upload(...), generateSASUrl (which throws
\* without account name and key), scheduleCleanup, and the handler's answer
Export_Upload(s) ==
    /\ \E op \in ExportOps : MayRun(s, op, "upload")
    /\ Len(blobs) < MaxBlobs
    /\ LET r == reqs[s]
           blob == [kind |-> r.op, by |-> r.user, owners |-> RowOwners(r),
                    age |-> 0, timer |-> blobService = "configured"]
       IN  /\ blobs' = Append(blobs, blob)
           /\ IF blobService = "configured"
              THEN Respond(s, Wrote(r), 200, [filename |-> r.op, owners |-> RowOwners(r)])
              ELSE Respond(s, Wrote(r), 500, Null)
    /\ UNCHANGED <<storeVars, tokens, blobService>>

ExportDispatch(s) ==
    \/ DispatchExportDenied(s)
    \/ DispatchExportTimeLogs(s)
    \/ DispatchExportAdmin(s)

ExportStep(s) ==
    \/ ExportTimeLogs_FindByFilters(s)
    \/ Export_FindAll(s)
    \/ Export_Enrich(s)
    \/ Export_Upload(s)

\* startServer has run: the store holds Alice (user) and Bob (admin), who hold
\* their tokens, and either nothing else or a project and one TimeLog of each
InitExports ==
    /\ FilterIdle /\ CsvIdle /\ PasswordIdle /\ MiddlewareIdle /\ HttpIdle /\ BootIdle
    /\ backend \in {"mock", "cosmos"}
    /\ blobService \in BlobServices
    /\ blobs = <<>>
    /\ users = (IF backend = "mock" THEN <<DefaultAdmin>> ELSE <<>>)
                  \o <<RegisteredUser(Alice, <<"a", "@x.com">>, "user"),
                       RegisteredUser(Bob, <<"b", "@x.com">>, "admin")>>
    /\ \E stored \in BOOLEAN :
          /\ timeLogs = IF stored
                        THEN <<[id |-> "timelog_a", userId |-> Alice, projectId |-> "project_1",
                                date |-> [day |-> 1, isDate |-> backend = "mock"], hours |-> 80],
                               [id |-> "timelog_b", userId |-> Bob, projectId |-> Undefined,
                                date |-> [day |-> 2, isDate |-> backend = "mock"], hours |-> 40]>>
                        ELSE <<>>
          /\ projects = IF stored
                        THEN <<[id |-> "project_1", assignedUserIds |-> <<Alice>>,
                                isActive |-> TRUE]>>
                        ELSE <<>>
    /\ nextUserId = 1
    /\ nextLogId = 1
    /\ tokens = {[id |-> Alice, role |-> "user"], [id |-> Bob, role |-> "admin"]}

\* requests to the exports router, served one after the other
NextExportsSerial ==
    \E s \in Slots :
        \/ (\A t \in Slots : reqs[t] = Idle) /\ ExportDispatch(s)
              /\ UNCHANGED <<bootVars, pwVars, mwVars, filterVars, csvVars>>
        \/ ExportStep(s) /\ UNCHANGED <<bootVars, pwVars, mwVars, filterVars, csvVars>>
        \/ Close(s) /\ UNCHANGED <<pwVars, mwVars, exVars>>

SpecExportsSerial == InitExports /\ [][NextExportsSerial]_vars

\* C11: the rows of an export handed to a caller of role user come from that
\* caller's TimeLogs only, whether the body names a userId or not.
C11_UserExportsOwnLogsOnly ==
    \A s \in Slots :
        (/\ Done(s) /\ reqs[s].op = "exportTimeLogs"
         /\ reqs[s].user.role = "user" /\ reqs[s].status = 200)
            => reqs[s].data.owners \subseteq {reqs[s].user.id}

\* C12: with no storage connection string every export call that gets as far
\* as the storage service (valid body, permitted caller, rows to export) is
\* answered 503, and no object is uploaded.
C12_UnconfiguredIs503 ==
    blobService = "unconfigured" =>
        /\ blobs = <<>>
        /\ \A s \in Slots :
              (/\ Done(s) /\ reqs[s].op \in ExportOps
               /\ reqs[s].invoked /\ reqs[s].status \notin {400, 403, 404})
                  => reqs[s].status = 503

---------------------------------------------------------------------------
(* TimeLogModel.findByFilters on its own *)

FindByFiltersLimit == 100       \* findByFilters(filters, limit = 100)

\* a stored TimeLog, as the backend holds it
StoredTimeLog(id, userId, projectId, day) ==
    [id |-> id, userId |-> userId, projectId |-> projectId,
     date |-> [day |-> day, isDate |-> backend = "mock"], hours |-> 80]

\* the contents of the TimeLogs container: up to MaxLogs TimeLogs of two users
StoredTimeLogInputs ==
    UNION {{[i \in 1..n |-> StoredTimeLog(TimeLogIdSeq[i], f[i].userId, f[i].projectId, f[i].day)] :
              f \in [1..n -> [userId : {Alice, Bob}, projectId : {Undefined, "project_1"},
                              day : Days]]} :
           n \in 0..MaxLogs}

\* the filters of a call (an absent date is written 0) and its limit
FilterInputs ==
    [userId : {Undefined, Alice}, projectId : {Undefined, "project_1"},
     startDate : {0, MaxDay}, endDate : {0, 1}]

InitFilters ==
    /\ BlobIdle /\ CsvIdle /\ PasswordIdle /\ MiddlewareIdle /\ HttpIdle /\ BootIdle
    /\ backend \in {"mock", "cosmos"}
    /\ users = (IF backend = "mock" THEN <<DefaultAdmin>> ELSE <<>>)
                  \o <<RegisteredUser(Alice, <<"a", "@x.com">>, "user"),
                       RegisteredUser(Bob, <<"b", "@x.com">>, "user")>>
    /\ timeLogs \in StoredTimeLogInputs
    /\ projects = <<[id |-> "project_1", assignedUserIds |-> <<>>, isActive |-> TRUE]>>
    /\ nextUserId = 1
    /\ nextLogId = Len(timeLogs) + 1
    /\ tokens = {}
    /\ fbfArgs \in [filters : FilterInputs, limit : {1, FindByFiltersLimit}]
    /\ fbfResult = Null

\* await timeLogModel.findByFilters(filters, limit)
FindByFiltersCall ==
    /\ fbfResult = Null
    /\ fbfResult' = [rows |-> TimeLogModel_findByFilters(fbfArgs.filters, fbfArgs.limit)]
    /\ UNCHANGED <<bootVars, storeVars, httpVars, pwVars, mwVars, blobVars, csvVars, fbfArgs>>

NextFilters == FindByFiltersCall

SpecFilters == InitFilters /\ [][NextFilters]_vars

\* the stored TimeLogs that satisfy every filter supplied
Matching(f) ==
    {i \in 1..Len(timeLogs) :
        /\ f.userId # Undefined => timeLogs[i].userId = f.userId
        /\ f.projectId # Undefined => timeLogs[i].projectId = f.projectId
        /\ f.startDate # 0 => timeLogs[i].date.day >= f.startDate
        /\ f.endDate # 0 => timeLogs[i].date.day <= f.endDate}

\* C13: findByFilters returns stored TimeLogs that satisfy every supplied
\* filter, each once, all of them if they are at most limit and limit of them
\* otherwise; an absent filter restricts nothing; on either backend.
C13_FindByFiltersExact ==
    fbfResult # Null =>
        LET rows == fbfResult.rows
            m == Matching(fbfArgs.filters)
        IN  /\ \A k \in 1..Len(rows) : \E i \in m : rows[k] = timeLogs[i]
            /\ \A k, l \in 1..Len(rows) : k # l => rows[k].id # rows[l].id
            /\ Len(rows) = Min(Cardinality(m), fbfArgs.limit)

---------------------------------------------------------------------------
(* The admin user routes when the document store cannot be reached *)

\* What the handler answers when the store call it awaits at pc fails:
\* UserModel.findById, findAll, update and delete catch the error and return
\* null, [] and false, which the handlers read as "no such user" or "no users";
\* toggleUserStatus destructures the null that update returns, a TypeError its
\* own catch answers with 500
AnswerOnFailure(op, pc) ==
    CASE op = "getAllUsers" -> 200
      [] op = "updateUser" -> 404
      [] op = "deleteUser" -> 404
      [] op = "toggleUserStatus" /\ pc = "findById" -> 404
      [] OTHER -> 500

\* the store call the handler in slot s awaits fails (Cosmos DB unreachable);
\* the call is made once, no handler and no repository method calls it again
StoreCallFails(s) ==
    /\ backend = "cosmos"
    /\ reqs[s] # Idle
    /\ reqs[s].op \in {"getAllUsers", "updateUser", "deleteUser", "toggleUserStatus"}
    /\ reqs[s].pc \in {"findAll", "findById", "update", "replace", "delete"}
    /\ running \in {0, s}
    /\ LET r == [reqs[s] EXCEPT !.failed = TRUE, !.attempts = 1]
           status == AnswerOnFailure(r.op, r.pc)
       IN  Respond(s, r, status,
                   IF r.op = "getAllUsers" THEN [users |-> <<>>] ELSE Null)
    /\ UNCHANGED <<storeVars, tokens>>

\* requests to the admin router, served one after the other, store calls of
\* the user routes failing at will
NextAdminFailing ==
    \E s \in Slots :
        \/ (\A t \in Slots : reqs[t] = Idle) /\ AdminDispatch(s) /\ UNCHANGED <<pwVars, mwVars, exVars>>
        \/ AdminStep(s) /\ UNCHANGED <<pwVars, mwVars, exVars>>
        \/ StoreCallFails(s) /\ UNCHANGED <<pwVars, mwVars, exVars>>
        \/ Close(s) /\ UNCHANGED <<pwVars, mwVars, exVars>>

SpecAdminFailing == InitAdmin /\ [][NextAdminFailing]_vars

\* C14: an updateUser or deleteUser request of an admin during which a store
\* call failed is answered with a 5xx status, never 2xx and never 404, and the
\* call that failed was made once.
C14_StoreFailureIs5xx ==
    \A s \in Slots :
        (/\ Done(s) /\ reqs[s].failed
         /\ reqs[s].op \in {"updateUser", "deleteUser"}
         /\ reqs[s].user.role \in {"admin", "super_admin"})
            => (reqs[s].status >= 500 /\ reqs[s].status <= 599 /\ reqs[s].attempts = 1)

---------------------------------------------------------------------------
(* AzureBlobStorageService.convertToCSV on its own *)

MaxRows == 2            \* rows of an export
MaxFieldLen == 2        \* characters of a string field

\* A field value: its JavaScript type and String(value), character by character
StringValue(text) == [type |-> "string", text |-> text]
NumberValue(text) == [type |-> "number", text |-> text]
BooleanValue(b) == [type |-> "boolean", text |-> IF b THEN <<"t", "r", "u", "e">>
                                                   ELSE <<"f", "a", "l", "s", "e">>]

\* value || '' takes the right-hand side for '', 0 and false
Falsy(value) ==
    \/ value.type = "string" /\ value.text = <<>>
    \/ value.type = "number" /\ value.text = <<"0">>
    \/ value.type = "boolean" /\ value.text = <<"f", "a", "l", "s", "e">>

Includes(text, ch) == \E i \in 1..Len(text) : text[i] = ch

\* value.replace(/"/g, '""')
RECURSIVE DoubleQuotes(_)
DoubleQuotes(text) ==
    IF text = <<>> THEN <<>>
    ELSE (IF Head(text) = "\"" THEN <<"\"", "\"">> ELSE <<Head(text)>>)
            \o DoubleQuotes(Tail(text))

\* convertToCSV: what headers.map(header => ...) yields for one value, as
\* values.join(',') writes it
CsvField(value) ==
    IF value.type = "string" /\ (Includes(value.text, ",") \/ Includes(value.text, "\""))
    THEN <<"\"">> \o DoubleQuotes(value.text) \o <<"\"">>
    ELSE IF Falsy(value) THEN <<>> ELSE value.text

\* Array.prototype.join
RECURSIVE Join(_, _)
Join(parts, sep) ==
    IF parts = <<>> THEN <<>>
    ELSE IF Len(parts) = 1 THEN parts[1]
    ELSE parts[1] \o <<sep>> \o Join(Tail(parts), sep)

\* the keys of data[0]
CsvHeaders == <<<<"s">>, <<"v">>>>

\* AzureBlobStorageService.convertToCSV; a row is the tuple of its values in
\* the order of the keys
ConvertToCSV(data) ==
    IF Len(data) = 0 THEN <<>>
    ELSE Join(<<Join(CsvHeaders, ",")>>
                  \o [i \in 1..Len(data) |->
                        Join([j \in 1..Len(data[i]) |-> CsvField(data[i][j])], ",")],
              "\n")

\* the rows handed to convertToCSV: a string that may hold commas and double
\* quotes, and a number or a boolean
StringInputs == UNION {[1..n -> {"a", ",", "\""}] : n \in 0..MaxFieldLen}
ScalarInputs == {NumberValue(<<"0">>), NumberValue(<<"7">>), BooleanValue(TRUE), BooleanValue(FALSE)}
RowInputs == {<<StringValue(t), v>> : t \in StringInputs, v \in ScalarInputs}
DataInputs == UNION {[1..n -> RowInputs] : n \in 0..MaxRows}

InitCsv ==
    /\ ServerIdle /\ BlobIdle /\ FilterIdle /\ PasswordIdle /\ MiddlewareIdle /\ BootIdle
    /\ csvRows \in DataInputs
    /\ csvText = Null

\* fileContent = this.convertToCSV(data)
ConvertToCSVCall ==
    /\ csvText = Null
    /\ csvText' = [text |-> ConvertToCSV(csvRows)]
    /\ UNCHANGED <<bootVars, storeVars, httpVars, pwVars, mwVars, blobVars, filterVars, csvRows>>

NextCsv == ConvertToCSVCall

SpecCsv == InitCsv /\ [][NextCsv]_vars

\* A CSV parser (RFC 4180): records end at a line break, fields at a comma, a
\* field in double quotes holds commas and, doubled, double quotes
RECURSIVE ParseFrom(_, _, _, _, _, _)
ParseFrom(text, i, inQuotes, field, record, records) ==
    IF i > Len(text)
    THEN (IF Len(text) = 0 THEN records ELSE Append(records, Append(record, field)))
    ELSE IF inQuotes
         THEN IF text[i] = "\""
              THEN IF i < Len(text) /\ text[i + 1] = "\""
                   THEN ParseFrom(text, i + 2, TRUE, Append(field, "\""), record, records)
                   ELSE ParseFrom(text, i + 1, FALSE, field, record, records)
              ELSE ParseFrom(text, i + 1, TRUE, Append(field, text[i]), record, records)
         ELSE CASE text[i] = "\"" -> ParseFrom(text, i + 1, TRUE, field, record, records)
                [] text[i] = "," -> ParseFrom(text, i + 1, FALSE, <<>>, Append(record, field), records)
                [] text[i] = "\n" ->
                     ParseFrom(text, i + 1, FALSE, <<>>, <<>>, Append(records, Append(record, field)))
                [] OTHER -> ParseFrom(text, i + 1, FALSE, Append(field, text[i]), record, records)

ParseCSV(text) == ParseFrom(text, 1, FALSE, <<>>, <<>>, <<>>)

\* the rows a parser's caller gets: the records after the header line
ParsedRows(text) ==
    LET records == ParseCSV(text)
    IN  IF Len(records) = 0 THEN <<>> ELSE Tail(records)

\* the rows as text, field for field
RowsAsText(data) == [i \in 1..Len(data) |-> [j \in 1..Len(data[i]) |-> data[i][j].text]]

\* C15: parsing the text convertToCSV produced gives back the rows, field for
\* field: strings with commas and double quotes, numbers (0 among them) and
\* booleans (false among them).
C15_CsvRoundTrip ==
    csvText # Null => ParsedRows(csvText.text) = RowsAsText(csvRows)

---------------------------------------------------------------------------
(* The life of an export object: exportData, its timer, cleanupExpiredExports *)

MaxAge == 25            \* hours an object's age is counted to; 25 stands for "older than 24 hours"
TtlHours == 1           \* expiresInMinutes: 60
SweepAgeHours == 24     \* ageInHours > 24
FileIds == 1..MaxBlobs  \* fileId = uuidv4()

Stored(id) == \E i \in 1..Len(blobs) : blobs[i].id = id

InitCleanup ==
    /\ ServerIdle /\ FilterIdle /\ CsvIdle /\ PasswordIdle /\ MiddlewareIdle /\ BootIdle
    /\ blobService \in BlobServices
    /\ blobs = <<>>

\* exportData: without a containerClient it throws before anything is stored;
\* otherwise the object is uploaded, then generateSASUrl throws when the account
\* name or key is missing (scheduleCleanup is not reached), else scheduleCleanup
\* sets the timer (cleanupTime > 0 for a TTL of 60 minutes)
ExportData(format) ==
    /\ blobService # "unconfigured"
    /\ Len(blobs) < MaxBlobs
    /\ \E id \in FileIds :
          /\ ~Stored(id)
          /\ blobs' = Append(blobs, [id |-> id, kind |-> format, age |-> 0,
                                     timer |-> blobService = "configured"])
    /\ UNCHANGED <<bootVars, storeVars, httpVars, pwVars, mwVars, filterVars, csvVars, blobService>>

\* one hour passes
Tick ==
    /\ blobs' = [i \in 1..Len(blobs) |->
                    [blobs[i] EXCEPT !.age = IF @ < MaxAge THEN @ + 1 ELSE @]]
    /\ UNCHANGED <<bootVars, storeVars, httpVars, pwVars, mwVars, filterVars, csvVars, blobService>>

WithoutBlob(id) == SelectSeq(blobs, LAMBDA b : b.id # id)

\* the setTimeout callback of scheduleCleanup: deleteIfExists, whose failure is
\* logged and not retried
TimerFires(id) ==
    /\ \E i \in 1..Len(blobs) :
          /\ blobs[i].id = id /\ blobs[i].timer /\ blobs[i].age >= TtlHours
          /\ \/ blobs' = WithoutBlob(id)
             \/ blobs' = [blobs EXCEPT ![i].timer = FALSE]
    /\ UNCHANGED <<bootVars, storeVars, httpVars, pwVars, mwVars, filterVars, csvVars, blobService>>

\* the process ends and startServer runs in a new one: the timers of the old
\* process are gone, the objects in storage stay
Restart ==
    /\ \E i \in 1..Len(blobs) : blobs[i].timer
    /\ blobs' = [i \in 1..Len(blobs) |-> [blobs[i] EXCEPT !.timer = FALSE]]
    /\ UNCHANGED <<bootVars, storeVars, httpVars, pwVars, mwVars, filterVars, csvVars, blobService>>

\* cleanupExpiredExports: deletes every object under exports/ older than 24
\* hours. No statement of the program calls it (startServer sets no interval
\* for it, no route runs it), so it is not a step of NextCleanup.
CleanupExpiredExports ==
    /\ blobService # "unconfigured"
    /\ blobs' = SelectSeq(blobs, LAMBDA b : ~(b.age > SweepAgeHours))
    /\ UNCHANGED <<bootVars, storeVars, httpVars, pwVars, mwVars, filterVars, csvVars, blobService>>

NextCleanup ==
    \/ \E format \in {"csv", "excel"} : ExportData(format)
    \/ Tick
    \/ \E id \in FileIds : TimerFires(id)
    \/ Restart

\* time passes, and a timer that is due runs
SpecCleanup ==
    /\ InitCleanup /\ [][NextCleanup]_vars
    /\ WF_vars(Tick)
    /\ \A id \in FileIds : WF_vars(TimerFires(id))

\* C16: every export object exportData uploaded is eventually deleted, by its
\* timer or, when the timer is lost, by the sweep of objects older than 24
\* hours; none stays in storage forever.
C16_EveryExportEventuallyDeleted ==
    \A id \in FileIds : Stored(id) ~> ~Stored(id)

---------------------------------------------------------------------------
(* Projects: ProjectController over ProjectModel and UserModel *)

MaxProjects == 2        \* projects in the container

\* ids ProjectModel.generateId hands out: project_<time>_<random>
ProjectIdSeq == <<"project_n1", "project_n2", "project_n3">>

ProjectOps == {"createProject", "updateProject", "assignUserToProject"}

\* assignedUserIds of a request body: arrays of up to two ids, user_0 being
\* nobody's id
AssignedUserIdInputs == UNION {[1..n -> {Alice, "user_0"}] : n \in 0..2}

CreateProjectBodies == [name : {"", "Site"}, assignedUserIds : AssignedUserIdInputs]
UpdateProjectBodies ==
    [name : {"", "Plant"}] \cup [assignedUserIds : AssignedUserIdInputs]
        \cup [name : {"Plant"}, assignedUserIds : AssignedUserIdInputs]

\* ProjectController.createValidation: name, trimmed, has 1 to 100 characters
ProjectCreateValidation(body) == body.name # ""

\* ProjectController.updateValidation: the same for a name that is given
ProjectUpdateValidation(body) == "name" \in DOMAIN body => body.name # ""

\* ProjectModel.create: the document built from the request
NewProject(projectData) ==
    [id |-> ProjectIdSeq[Len(projects) + 1], name |-> projectData.name,
     assignedUserIds |-> projectData.assignedUserIds, isActive |-> TRUE]

\* the project routes are registered ahead of router.use(authenticateToken):
\* no middleware runs, req.user is not set
ProjectRequest(op, id, body) == Invoked(NewRequest(op, NoUser, "missing", id, body))

\* the handler steps that are under way in other slots and will create a project
CreatesUnderWay ==
    Cardinality({t \in Slots : reqs[t] # Idle /\ reqs[t].op = "createProject"
                                 /\ reqs[t].pc # "done"})

\* POST /api/admin/projects: createValidation, then createProject up to its
\* first await (the userModel.findAll() whose result is only logged)
DispatchCreateProject(s) ==
    /\ MayDispatch(s)
    /\ Len(projects) + CreatesUnderWay < MaxProjects
    /\ \E body \in CreateProjectBodies :
          LET r == ProjectRequest("createProject", Undefined, body)
          IN  IF ~ProjectCreateValidation(body) THEN Respond(s, r, 400, Null)
              ELSE Await(s, r, "findAll")
    /\ UNCHANGED <<storeVars, tokens>>

\* the loop over assignedUserIds is entered at its first id, or skipped
EnterUserLoop(s, r, ids, after) ==
    IF Len(ids) > 0 THEN Await(s, [r EXCEPT !.doc = [k |-> 1]], "findUser")
    ELSE Await(s, r, after)

\* createProject: const allUsers = await this.userModel.findAll()
CreateProject_FindAll(s) ==
    /\ MayRun(s, "createProject", "findAll")
    /\ LET r == Reads(reqs[s])
       IN  EnterUserLoop(s, r, r.body.assignedUserIds, "create")
    /\ UNCHANGED <<storeVars, tokens>>

\* the loop body with the check left out
FindUserUnchecked(s, op, after) ==
    /\ MayRun(s, op, "findUser")
    /\ LET r == reqs[s]
           ids == r.body.assignedUserIds
       IN  IF r.doc.k < Len(ids)
           THEN Await(s, [r EXCEPT !.doc = [k |-> r.doc.k + 1]], "findUser")
           ELSE Await(s, [r EXCEPT !.doc = Null], after)
    /\ UNCHANGED <<storeVars, tokens>>

\* for (const userId of assignedUserIds): const user = await
\* this.userModel.findById(userId); if (!user) answer 400 and return
FindUser(s, op, after) ==
    /\ MayRun(s, op, "findUser")
    /\ LET r == reqs[s]
           ids == r.body.assignedUserIds
       IN  IF UserModel_findById(ids[r.doc.k]) = Null THEN Respond(s, r, 400, Null)
           ELSE IF r.doc.k < Len(ids)
                THEN Await(s, [r EXCEPT !.doc = [k |-> r.doc.k + 1]], "findUser")
                ELSE Await(s, [r EXCEPT !.doc = Null], after)
    /\ UNCHANGED <<storeVars, tokens>>

CreateProject_FindUser(s) == FindUser(s, "createProject", "create")

\* createProject: const project = await this.projectModel.create(projectData)
CreateProject_Create(s) ==
    /\ MayRun(s, "createProject", "create")
    /\ LET r == reqs[s]
           c == ItemsCreate("Projects", projects, NewProject(r.body))
       IN  /\ projects' = c.container
           /\ IF c.ok THEN Respond(s, Wrote(r), 201, c.resource)
              ELSE Respond(s, r, 500, Null)
    /\ UNCHANGED <<backend, users, timeLogs, nextUserId, nextLogId, tokens>>

ProjectIdParams == {"project_1", "project_0"}

\* PUT /api/admin/projects/:id: updateValidation, then updateProject up to its
\* first await
DispatchUpdateProject(s) ==
    /\ MayDispatch(s)
    /\ \E id \in ProjectIdParams, body \in UpdateProjectBodies :
          LET r == ProjectRequest("updateProject", id, body)
          IN  IF ~ProjectUpdateValidation(body) THEN Respond(s, r, 400, Null)
              ELSE Await(s, r, "findById")
    /\ UNCHANGED <<storeVars, tokens>>

\* updateProject: const existingProject = await this.projectModel.findById(id)
UpdateProject_FindById(s) ==
    /\ MayRun(s, "updateProject", "findById")
    /\ LET r == Reads(reqs[s])
       IN  IF ProjectModel_findById(r.id) = Null THEN Respond(s, r, 404, Null)
           ELSE IF "assignedUserIds" \in DOMAIN r.body
                THEN EnterUserLoop(s, r, r.body.assignedUserIds, "update")
                ELSE Await(s, r, "update")
    /\ UNCHANGED <<storeVars, tokens>>

UpdateProject_FindUser(s) == FindUser(s, "updateProject", "update")

\* the updates argument of ProjectModel.update: req.body in updateProject,
\* { assignedUserIds } in assignUser
Updates(r) == IF r.op = "updateProject" THEN r.body ELSE r.doc.updates

\* ProjectModel.update: const project = await this.findById(id); if there is
\* none it returns null, which the caller answers with failure
ProjectModel_update_FindById(s, op, failure) ==
    /\ MayRun(s, op, "update")
    /\ LET r == reqs[s]
           project == ProjectModel_findById(r.id)
       IN  IF project = Null THEN Respond(s, r, failure, Null)
           ELSE Await(s, [r EXCEPT !.doc = [project |-> project, updates |-> Updates(r)]],
                      "replace")
    /\ UNCHANGED <<storeVars, tokens>>

\* a replace that goes through only if the stored document is still the one
\* that was read
ProjectModel_update_ReplaceIfUnchanged(s, op, failure) ==
    /\ MayRun(s, op, "replace")
    /\ LET r == reqs[s]
           c == ItemReplace("Projects", projects, r.id, r.id,
                            Spread(r.doc.project, r.doc.updates))
           unchanged == ProjectModel_findById(r.id) = r.doc.project
       IN  /\ projects' = IF unchanged THEN c.container ELSE projects
           /\ IF c.ok /\ unchanged THEN Respond(s, Wrote(r), 200, c.resource)
              ELSE Respond(s, r, failure, Null)
    /\ UNCHANGED <<backend, users, timeLogs, nextUserId, nextLogId, tokens>>

\* ProjectModel.update: item(id, id).replace({ ...project, ...updates }); an
\* exception is caught and null returned
ProjectModel_update_Replace(s, op, failure) ==
    /\ MayRun(s, op, "replace")
    /\ LET r == reqs[s]
           c == ItemReplace("Projects", projects, r.id, r.id,
                            Spread(r.doc.project, r.doc.updates))
       IN  /\ projects' = c.container
           /\ IF c.ok THEN Respond(s, Wrote(r), 200, c.resource)
              ELSE Respond(s, r, failure, Null)
    /\ UNCHANGED <<backend, users, timeLogs, nextUserId, nextLogId, tokens>>

\* updateProject answers 500 when projectModel.update returned null
UpdateProject_Update(s) == ProjectModel_update_FindById(s, "updateProject", 500)
UpdateProject_Replace(s) == ProjectModel_update_Replace(s, "updateProject", 500)

\* POST /api/admin/projects/:projectId/assign/:userId up to its first await
DispatchAssignUserToProject(s) ==
    /\ MayDispatch(s)
    /\ \E projectId \in ProjectIdParams, userId \in UserIdInputs :
          Await(s, ProjectRequest("assignUserToProject", projectId, [userId |-> userId]),
                "findById")
    /\ UNCHANGED <<storeVars, tokens>>

\* assignUserToProject: const project = await this.projectModel.findById(projectId)
AssignUserToProject_FindById(s) ==
    /\ MayRun(s, "assignUserToProject", "findById")
    /\ LET r == Reads(reqs[s])
       IN  IF ProjectModel_findById(r.id) = Null THEN Respond(s, r, 404, Null)
           ELSE Await(s, r, "findUser")
    /\ UNCHANGED <<storeVars, tokens>>

\* assignUserToProject: const user = await this.userModel.findById(userId)
AssignUserToProject_FindUser(s) ==
    /\ MayRun(s, "assignUserToProject", "findUser")
    /\ LET r == reqs[s]
       IN  IF UserModel_findById(r.body.userId) = Null THEN Respond(s, r, 404, Null)
           ELSE Await(s, r, "assignUser")
    /\ UNCHANGED <<storeVars, tokens>>

\* ProjectModel.assignUser: const project = await this.findById(projectId);
\* false without one (answered 500); true at once when the user is assigned
\* already; else the id is pushed onto the array read (the mock hands out the
\* stored document itself, so there the push changes the container) and update
\* is called
ProjectModel_assignUser(s) ==
    /\ MayRun(s, "assignUserToProject", "assignUser")
    /\ LET r == reqs[s]
           project == ProjectModel_findById(r.id)
           i == FindIndex(projects, LAMBDA p : p.id = r.id)
       IN  IF project = Null
           THEN Respond(s, r, 500, Null) /\ UNCHANGED projects
           ELSE IF \E k \in 1..Len(project.assignedUserIds) :
                        project.assignedUserIds[k] = r.body.userId
           THEN Respond(s, r, 200, Null) /\ UNCHANGED projects
           ELSE LET assignedUserIds == Append(project.assignedUserIds, r.body.userId)
                IN  /\ Await(s, [r EXCEPT !.doc = [updates |->
                                     [assignedUserIds |-> assignedUserIds]]], "update")
                    /\ projects' = IF backend = "mock"
                                   THEN [projects EXCEPT ![i].assignedUserIds = assignedUserIds]
                                   ELSE projects
    /\ UNCHANGED <<backend, users, timeLogs, nextUserId, nextLogId, tokens>>

\* assignUser does not read what update returned: it returns true, and
\* assignUserToProject answers 200
AssignUserToProject_Update(s) == ProjectModel_update_FindById(s, "assignUserToProject", 200)
AssignUserToProject_Replace(s) == ProjectModel_update_Replace(s, "assignUserToProject", 200)

ProjectDispatch(s) ==
    \/ DispatchCreateProject(s)
    \/ DispatchUpdateProject(s)
    \/ DispatchAssignUserToProject(s)

ProjectStep(s) ==
    \/ CreateProject_FindAll(s)
    \/ CreateProject_FindUser(s)
    \/ CreateProject_Create(s)
    \/ UpdateProject_FindById(s)
    \/ UpdateProject_FindUser(s)
    \/ UpdateProject_Update(s)
    \/ UpdateProject_Replace(s)
    \/ AssignUserToProject_FindById(s)
    \/ AssignUserToProject_FindUser(s)
    \/ ProjectModel_assignUser(s)
    \/ AssignUserToProject_Update(s)
    \/ AssignUserToProject_Replace(s)

\* Alice and Bob have registered; one project exists, nobody assigned to it
InitProjects ==
    /\ BlobIdle /\ FilterIdle /\ CsvIdle /\ BootIdle
    /\ backend \in {"mock", "cosmos"}
    /\ users = (IF backend = "mock" THEN <<DefaultAdmin>> ELSE <<>>)
                  \o <<RegisteredUser(Alice, <<"a", "@x.com">>, "user"),
                       RegisteredUser(Bob, <<"b", "@x.com">>, "admin")>>
    /\ timeLogs = <<>>
    /\ projects = <<[id |-> "project_1", name |-> "Plant", assignedUserIds |-> <<>>,
                     isActive |-> TRUE]>>
    /\ nextUserId = 1
    /\ nextLogId = 1
    /\ tokens = {}
    /\ HttpIdle
    /\ PasswordIdle
    /\ MiddlewareIdle

\* requests to the project routes, served one after the other
NextProjectsSerial ==
    \E s \in Slots :
        \/ (\A t \in Slots : reqs[t] = Idle) /\ ProjectDispatch(s) /\ UNCHANGED <<pwVars, mwVars, exVars>>
        \/ ProjectStep(s) /\ UNCHANGED <<pwVars, mwVars, exVars>>
        \/ Close(s) /\ UNCHANGED <<pwVars, mwVars, exVars>>

SpecProjectsSerial == InitProjects /\ [][NextProjectsSerial]_vars

\* some id of the request's assignedUserIds is no user's id
NamesMissingUser(r) ==
    /\ r.op \in {"createProject", "updateProject"}
    /\ "assignedUserIds" \in DOMAIN r.body
    /\ \E k \in 1..Len(r.body.assignedUserIds) :
          UserModel_findById(r.body.assignedUserIds[k]) = Null

---------------------------------------------------------------------------
(* createTimeLog and the project named in the request *)

\* the Projects container: project_1 with Alice assigned or with nobody
\* assigned, project_2 absent or with nobody assigned
ProjectFixtures ==
    {<<[id |-> "project_1", assignedUserIds |-> <<Alice>>, isActive |-> TRUE]>>,
     <<[id |-> "project_1", assignedUserIds |-> <<Alice>>, isActive |-> TRUE],
       [id |-> "project_2", assignedUserIds |-> <<>>, isActive |-> TRUE]>>,
     <<[id |-> "project_1", assignedUserIds |-> <<>>, isActive |-> TRUE]>>}

\* Alice and Bob have registered and hold their tokens
InitAttribution ==
    /\ BlobIdle /\ FilterIdle /\ CsvIdle /\ BootIdle
    /\ backend \in {"mock", "cosmos"}
    /\ users = (IF backend = "mock" THEN <<DefaultAdmin>> ELSE <<>>)
                  \o <<RegisteredUser(Alice, <<"a", "@x.com">>, "user"),
                        RegisteredUser(Bob, <<"b", "@x.com">>, "user")>>
    /\ timeLogs = <<>>
    /\ projects \in ProjectFixtures
    /\ nextUserId = 1
    /\ nextLogId = 1
    /\ tokens = {[id |-> Alice, role |-> "user"], [id |-> Bob, role |-> "user"]}
    /\ HttpIdle
    /\ PasswordIdle
    /\ MiddlewareIdle

\* POST /api/time-logs requests, served one after the other
NextAttribution ==
    \E s \in Slots :
        \/ (\A t \in Slots : reqs[t] = Idle) /\ DispatchCreateTimeLog(s) /\ UNCHANGED <<pwVars, mwVars, exVars>>
        \/ CreateTimeLog_FindProject(s) /\ UNCHANGED <<pwVars, mwVars, exVars>>
        \/ CreateTimeLog_FindByUser(s) /\ UNCHANGED <<pwVars, mwVars, exVars>>
        \/ CreateTimeLog_Create(s) /\ UNCHANGED <<pwVars, mwVars, exVars>>
        \/ Close(s) /\ UNCHANGED <<pwVars, mwVars, exVars>>

SpecAttribution == InitAttribution /\ [][NextAttribution]_vars

\* the user is assigned to the project, or nobody is
MayLogAgainst(project, userId) ==
    \/ Len(project.assignedUserIds) = 0
    \/ \E i \in 1..Len(project.assignedUserIds) : project.assignedUserIds[i] = userId

---------------------------------------------------------------------------
(* Deleting a user who has time logs and is assigned to a project *)

\* Alice (user) and Bob (admin) have registered and hold their tokens; Alice
\* has logged one day and is assigned to project_1, Bob has logged one day
InitDeletion ==
    /\ BlobIdle /\ FilterIdle /\ CsvIdle /\ BootIdle
    /\ backend \in {"mock", "cosmos"}
    /\ users = (IF backend = "mock" THEN <<DefaultAdmin>> ELSE <<>>)
                  \o <<RegisteredUser(Alice, <<"a", "@x.com">>, "user"),
                       RegisteredUser(Bob, <<"b", "@x.com">>, "admin")>>
    /\ timeLogs = <<[id |-> "timelog_a", userId |-> Alice, projectId |-> "project_1",
                     date |-> [day |-> 1, isDate |-> backend = "mock"], hours |-> 80],
                    [id |-> "timelog_b", userId |-> Bob, projectId |-> Undefined,
                     date |-> [day |-> 1, isDate |-> backend = "mock"], hours |-> 80]>>
    /\ projects = <<[id |-> "project_1", name |-> "Plant", assignedUserIds |-> <<Alice, Bob>>,
                     isActive |-> TRUE]>>
    /\ nextUserId = 1
    /\ nextLogId = 1
    /\ tokens = {[id |-> Alice, role |-> "user"], [id |-> Bob, role |-> "admin"]}
    /\ HttpIdle
    /\ PasswordIdle
    /\ MiddlewareIdle

SpecDeletion == InitDeletion /\ [][NextAdminSerial]_vars

\* the step in which the deleteUser request of slot s is answered 200
DeleteSucceeds(s) ==
    /\ reqs[s] # Idle /\ reqs[s].op = "deleteUser" /\ reqs[s].pc = "delete"
    /\ reqs'[s] # Idle /\ reqs'[s].pc = "done" /\ reqs'[s].status = 200

\* C19: a successful DELETE /api/admin/users/:id removes exactly the user
\* document of that id; every time log (the deleted user's too) and every
\* project (assignedUserIds naming the deleted user too) stays as it was.
C19_DeleteUserDoesNotCascade ==
    [][\A s \in Slots :
          DeleteSucceeds(s) =>
              /\ \E i \in 1..Len(users) :
                    /\ users[i].id = reqs[s].id
                    /\ users' = RemoveAt(users, i)
              /\ timeLogs' = timeLogs
              /\ projects' = projects]_vars

\* Alice has been deleted; her time log and her assignment to project_1 are
\* still there
C19_Witness ==
    /\ \E s \in Slots :
          /\ Done(s) /\ reqs[s].op = "deleteUser" /\ reqs[s].id = Alice
          /\ reqs[s].status = 200
    /\ ~\E i \in 1..Len(users) : users[i].id = Alice
    /\ \E i \in 1..Len(timeLogs) : timeLogs[i].userId = Alice
    /\ \E i \in 1..Len(projects), k \in 1..2 :
          Len(projects[i].assignedUserIds) >= k /\ projects[i].assignedUserIds[k] = Alice

---------------------------------------------------------------------------
(* Project requests served at the same time *)

\* assignUserToProject and updateProject requests; a handler that awaits a
\* store call of Cosmos DB lets the other requests run
NextProjects ==
    \E s \in Slots :
        \/ DispatchAssignUserToProject(s) /\ UNCHANGED <<pwVars, mwVars, exVars>>
        \/ DispatchUpdateProject(s) /\ UNCHANGED <<pwVars, mwVars, exVars>>
        \/ AssignUserToProject_FindById(s) /\ UNCHANGED <<pwVars, mwVars, exVars>>
        \/ AssignUserToProject_FindUser(s) /\ UNCHANGED <<pwVars, mwVars, exVars>>
        \/ ProjectModel_assignUser(s) /\ UNCHANGED <<pwVars, mwVars, exVars>>
        \/ AssignUserToProject_Update(s) /\ UNCHANGED <<pwVars, mwVars, exVars>>
        \/ AssignUserToProject_Replace(s) /\ UNCHANGED <<pwVars, mwVars, exVars>>
        \/ UpdateProject_FindById(s) /\ UNCHANGED <<pwVars, mwVars, exVars>>
        \/ UpdateProject_FindUser(s) /\ UNCHANGED <<pwVars, mwVars, exVars>>
        \/ UpdateProject_Update(s) /\ UNCHANGED <<pwVars, mwVars, exVars>>
        \/ UpdateProject_Replace(s) /\ UNCHANGED <<pwVars, mwVars, exVars>>
        \/ Close(s) /\ UNCHANGED <<pwVars, mwVars, exVars>>

SpecProjects == InitProjects /\ [][NextProjects]_vars

\* the request of slot s has read the project inside ProjectModel.update and
\* has not written yet
HasReadForUpdate(s) ==
    /\ reqs[s] # Idle
    /\ reqs[s].op \in {"updateProject", "assignUserToProject"}
    /\ reqs[s].pc = "replace"

\* C20: an update writes the document it read merged with its own changes and
\* reports success, whatever was written since it read: of two updates of one
\* project that both read before either writes, both are answered 200 and the
\* stored project is the later writer's snapshot with the later writer's
\* changes, the earlier writer's changes being lost.
C20_LastWriterWins ==
    [][\A s \in Slots :
          (HasReadForUpdate(s) /\ reqs'[s] # Idle /\ reqs'[s].pc = "done")
              => /\ reqs'[s].status = 200
                 /\ \E i \in 1..Len(projects) :
                       /\ projects[i].id = reqs[s].id
                       /\ projects' = [projects EXCEPT
                                           ![i] = Spread(reqs[s].doc.project, reqs[s].doc.updates)]
                 /\ \A t \in Slots \ {s} :
                       (HasReadForUpdate(t) /\ reqs[t].id = reqs[s].id)
                           => /\ HasReadForUpdate(t)'
                              /\ reqs'[t].doc = reqs[t].doc]_vars

\* two assignUser calls for Alice and for Bob on project_1, to which nobody
\* was assigned, have both been answered 200 and one of the two is assigned
C20_Witness ==
    /\ \E s, t \in Slots :
          /\ Done(s) /\ Done(t)
          /\ reqs[s].op = "assignUserToProject" /\ reqs[t].op = "assignUserToProject"
          /\ reqs[s].id = "project_1" /\ reqs[t].id = "project_1"
          /\ reqs[s].body.userId = Alice /\ reqs[t].body.userId = Bob
          /\ reqs[s].status = 200 /\ reqs[t].status = 200
          /\ reqs[s].wrote /\ reqs[t].wrote
    /\ \E i \in 1..Len(projects) :
          projects[i].id = "project_1" /\ Len(projects[i].assignedUserIds) = 1

---------------------------------------------------------------------------
(* The role of a stored user *)

\* C21: every stored user's role is one of user, admin, super_admin, whatever
\* bodies the register, createFirstAdmin and createUser requests carried.
C21_RolesInDomain ==
    \A i \in 1..Len(users) : users[i].role \in UserRoles

---------------------------------------------------------------------------
(* assignedUserIds of the stored projects *)

\* C22: no stored project's assignedUserIds holds the same user id twice,
\* whatever createProject, updateProject and assignUserToProject requests
\* were served.
C22_AssignedUserIdsIsSet ==
    \A i \in 1..Len(projects) :
        \A j, k \in 1..Len(projects[i].assignedUserIds) :
            projects[i].assignedUserIds[j] = projects[i].assignedUserIds[k] => j = k


----------------------------------------------------------------------------
(* The store client: initializeCosmosDB and getCosmosDB *)

MaxCallers == 3             \* calls of the two accessors in one run

\* values of COSMOS_DB_ENDPOINT, by what initializeCosmosDB tests of them
EndpointInputs ==
    {"", "https://your-cosmosdb.documents.azure.com:443/", "http://ojt.documents.azure.com/",
     "https://ojt.azure", "https://ojt.documents.azure.com:443/"}
EndpointIsPlaceholder(e) == e = "https://your-cosmosdb.documents.azure.com:443/"
EndpointIsHttps(e) ==
    e \in {"https://your-cosmosdb.documents.azure.com:443/", "https://ojt.azure",
           "https://ojt.documents.azure.com:443/"}
EndpointLength(e) ==
    CASE e = "" -> 0
      [] e = "https://your-cosmosdb.documents.azure.com:443/" -> 46
      [] e = "http://ojt.documents.azure.com/" -> 31
      [] e = "https://ojt.azure" -> 17
      [] OTHER -> 36
MinEndpointLength == 20
KeyInputs == {"", "key"}

EnvInputs == [endpoint : EndpointInputs, key : KeyInputs, blob : BlobServices]

\* the service initializeCosmosDB constructs for a configuration
ServiceFor(e) ==
    IF \/ e.endpoint = ""
       \/ e.key = ""
       \/ EndpointIsPlaceholder(e.endpoint)
       \/ ~EndpointIsHttps(e.endpoint)
       \/ EndpointLength(e.endpoint) < MinEndpointLength
    THEN "mock" ELSE "cosmos"

NoService == [made |-> 0, state |-> "null"]
Callers == 1..MaxCallers
IdleCaller == [pc |-> "idle", fn |-> "none", got |-> 0, ready |-> FALSE]

\* the value handed to caller c: the instance in cosmosService, and whether
\* its initialize() had completed by then
HandedTo(c, fn) ==
    [pc |-> "returned", fn |-> fn, got |-> cosmosService.made,
     ready |-> cosmosService.state = "initialized"]

\* initializeCosmosDB up to its await: the variable is assigned before
\* initialize() is awaited; a call that finds it assigned returns it at once
InitializeCosmosDB(c) ==
    /\ callers[c].pc = "idle"
    /\ IF cosmosService.state = "null"
       THEN /\ cosmosService' = [made |-> cosmosService.made + 1, state |-> "initializing"]
            /\ backend' = ServiceFor(env)
            /\ callers' = [callers EXCEPT ![c] = [@ EXCEPT !.pc = "awaiting",
                                                            !.fn = "initializeCosmosDB"]]
       ELSE /\ callers' = [callers EXCEPT ![c] = HandedTo(c, "initializeCosmosDB")]
            /\ UNCHANGED <<cosmosService, backend>>

\* initialize() of the instance completes: the mock's always, the Cosmos
\* client's unless createIfNotExists threw
InitializeReturns(c) ==
    /\ callers[c].pc = "awaiting"
    /\ cosmosService' = [cosmosService EXCEPT !.state = "initialized"]
    /\ callers' = [callers EXCEPT ![c] = [pc |-> "returned", fn |-> "initializeCosmosDB",
                                          got |-> cosmosService.made, ready |-> TRUE]]
    /\ UNCHANGED backend

\* initialize() rethrows: the call rejects, the variable keeps the instance
InitializeThrows(c) ==
    /\ callers[c].pc = "awaiting"
    /\ backend = "cosmos"
    /\ cosmosService' = [cosmosService EXCEPT !.state = "failed"]
    /\ callers' = [callers EXCEPT ![c] = [@ EXCEPT !.pc = "threw"]]
    /\ UNCHANGED backend

GetCosmosDB(c) ==
    /\ callers[c].pc = "idle"
    /\ IF cosmosService.state = "null"
       THEN callers' = [callers EXCEPT ![c] = [@ EXCEPT !.pc = "threw", !.fn = "getCosmosDB"]]
       ELSE callers' = [callers EXCEPT ![c] = HandedTo(c, "getCosmosDB")]
    /\ UNCHANGED <<cosmosService, backend>>

SingletonIdle ==
    /\ users = <<>> /\ timeLogs = <<>> /\ projects = <<>>
    /\ nextUserId = 1 /\ nextLogId = 1 /\ tokens = {}
    /\ HttpIdle /\ PasswordIdle /\ MiddlewareIdle
    /\ BlobIdle /\ FilterIdle /\ CsvIdle

InitSingleton ==
    /\ env \in [endpoint : EndpointInputs, key : KeyInputs, blob : {"unconfigured"}]
    /\ backend = "none"
    /\ cosmosService = NoService
    /\ callers = [c \in Callers |-> IdleCaller]
    /\ server = [pc |-> "listening", loaded |-> 4, error |-> "none"]
    /\ SingletonIdle

NextSingleton ==
    \E c \in Callers :
        /\ \/ InitializeCosmosDB(c)
           \/ InitializeReturns(c)
           \/ InitializeThrows(c)
           \/ GetCosmosDB(c)
        /\ UNCHANGED <<users, timeLogs, projects, nextUserId, nextLogId, httpVars, pwVars,
                       mwVars, blobVars, filterVars, csvVars, env, server>>

SpecSingleton == InitSingleton /\ [][NextSingleton]_vars

\* C23, first half: the client is constructed at most once and every call
\* that returns returns that one instance
C23_OneInstance ==
    /\ cosmosService.made <= 1
    /\ \A c \in Callers : callers[c].pc = "returned" => callers[c].got = 1

\* C23: the store client is constructed at most once, every call of
\* initializeCosmosDB and getCosmosDB that returns hands out that instance,
\* and an instance is handed to a caller only after its initialize() has
\* completed
C23_HandedOutInitialized ==
    /\ C23_OneInstance
    /\ \A c \in Callers : callers[c].pc = "returned" => callers[c].ready


----------------------------------------------------------------------------
(* Start of the process: the server module and startServer *)

\* the route modules the server module imports, in the order of its imports
RouteModules == <<"auth", "timeLogs", "admin", "exports">>

\* routes/exports constructs its controller when the module is evaluated; the
\* other three construct theirs on the first request
ConstructsControllerOnImport(m) == m = "exports"

NotInitialized == "Cosmos DB not initialized. Call initializeCosmosDB() first."

\* new ExportController(): new TimeLogModel(), new UserModel(), new
\* ProjectModel(). Only UserModel's constructor calls getCosmosDB(); it throws
\* while cosmosService is null
ExportControllerThrows == cosmosService.state = "null"

\* evaluation of the next import of the server module: an exception thrown by
\* a route module ends the process before the module's own statements run
ImportRoute ==
    LET m == RouteModules[server.loaded + 1]
    IN  /\ IF ConstructsControllerOnImport(m) /\ ExportControllerThrows
           THEN server' = [server EXCEPT !.pc = "crashed", !.error = NotInitialized]
           ELSE server' = [server EXCEPT !.loaded = @ + 1,
                                         !.pc = IF server.loaded + 1 = Len(RouteModules)
                                                THEN "startServer" ELSE "import"]
        /\ UNCHANGED <<cosmosService, backend, users, blobService>>

\* startServer up to `await initializeCosmosDB()`
StartServer ==
    /\ cosmosService' = IF cosmosService.state = "null"
                        THEN [made |-> cosmosService.made + 1, state |-> "initializing"]
                        ELSE cosmosService
    /\ backend' = IF cosmosService.state = "null" THEN ServiceFor(env) ELSE backend
    /\ server' = [server EXCEPT !.pc = "awaitCosmos"]
    /\ UNCHANGED <<users, blobService>>

\* initialize() returns (the mock stores its default admin), or the Cosmos
\* client's throws and startServer's catch ends the process
StartServer_CosmosInitialized ==
    \/ /\ cosmosService' = [cosmosService EXCEPT !.state = "initialized"]
       /\ users' = IF backend = "mock" THEN <<DefaultAdmin>> ELSE users
       /\ server' = [server EXCEPT !.pc = "awaitBlob"]
       /\ UNCHANGED <<backend, blobService>>
    \/ /\ backend = "cosmos"
       /\ cosmosService' = [cosmosService EXCEPT !.state = "failed"]
       /\ server' = [server EXCEPT !.pc = "exited", !.error = "Failed to start server"]
       /\ UNCHANGED <<backend, users, blobService>>

\* initializeBlobStorage() returns and app.listen is called
StartServer_Listen ==
    /\ blobService' = env.blob
    /\ server' = [server EXCEPT !.pc = "listening"]
    /\ UNCHANGED <<cosmosService, backend, users>>

\* the process from its start to the listening state
ServerModule ==
    /\ CASE server.pc = "import" -> ImportRoute
         [] server.pc = "startServer" -> StartServer
         [] server.pc = "awaitCosmos" -> StartServer_CosmosInitialized
         [] server.pc = "awaitBlob" -> StartServer_Listen
         [] OTHER -> FALSE
    /\ UNCHANGED <<timeLogs, projects, nextUserId, nextLogId, httpVars, pwVars, mwVars,
                   blobs, filterVars, csvVars, env, callers>>

InitStartup ==
    /\ env \in EnvInputs
    /\ backend = "none"
    /\ cosmosService = NoService
    /\ callers = <<>>
    /\ server = [pc |-> "import", loaded |-> 0, error |-> "none"]
    /\ SingletonIdle

NextStartup == ServerModule

SpecStartup == InitStartup /\ [][NextStartup]_vars /\ WF_vars(NextStartup)

\* C30: no controller or repository calls getCosmosDB before initializeCosmosDB
\* has completed: the error 'Cosmos DB not initialized' is never raised while
\* the process starts
C30_NotInitializedNeverRaised == server.error # NotInitialized

\* C30, second half: the process reaches the listening state
C30_ReachesListening == <>(server.pc = "listening")


----------------------------------------------------------------------------
(* Lookups by id of documents that are not stored *)

\* the projects ProjectModel.findById keeps for the case that the read throws
MockProjectIds == {"project_001", "project_002", "project_003"}

\* ProjectModel.findById when item(id, id).read() throws: the catch answers
\* from the list above
ProjectModel_findById_Catch(id) ==
    IF id \in MockProjectIds
    THEN [id |-> id, assignedUserIds |-> <<>>, isActive |-> TRUE]
    ELSE Null

\* UserModel.findById and TimeLogModel.findById when the read throws
UserModel_findById_Catch(id) == Null
TimeLogModel_findById_Catch(id, userId) == Null

LookupBodies ==
    [date : DateInputs, hours : HourInputs,
     projectId : {"project_1", "project_0", "project_001"}]

\* POST /api/time-logs with a body that names a project, up to the first await
DispatchCreateTimeLogForProject(s) ==
    /\ MayDispatch(s)
    /\ nextLogId <= MaxLogs
    /\ \E u \in tokens, body \in LookupBodies :
          LET a == AuthenticateToken([scheme |-> "Bearer", nparts |-> 2,
                                      token |-> [kind |-> "valid", payload |-> u]])
              r == Invoked(NewRequest("createTimeLog", a.user, "valid", Undefined, body))
          IN  /\ a.next
              /\ IF ~CreateValidation(body) THEN Respond(s, r, 400, Null)
                 ELSE Await(s, r, "findProject")
    /\ UNCHANGED <<storeVars, tokens>>

\* createTimeLog: await this.projectModel.findById(projectId) when the read of
\* the Projects container throws (Cosmos DB cannot be reached)
CreateTimeLog_FindProjectFails(s) ==
    /\ MayRun(s, "createTimeLog", "findProject")
    /\ backend = "cosmos"
    /\ LET r == [Reads(reqs[s]) EXCEPT !.failed = TRUE, !.attempts = 1]
           project == ProjectModel_findById_Catch(r.body.projectId)
       IN  IF project = Null THEN Respond(s, r, 404, Null)
           ELSE IF Len(project.assignedUserIds) > 0
                   /\ ~\E i \in 1..Len(project.assignedUserIds) :
                          project.assignedUserIds[i] = r.user.id
                THEN Respond(s, r, 403, Null)
                ELSE Await(s, r, "findByUser")
    /\ UNCHANGED <<storeVars, tokens>>

NextLookup ==
    \E s \in Slots :
        \/ (\A t \in Slots : reqs[t] = Idle) /\ DispatchCreateTimeLogForProject(s)
              /\ UNCHANGED <<pwVars, mwVars, exVars>>
        \/ CreateTimeLog_FindProject(s) /\ UNCHANGED <<pwVars, mwVars, exVars>>
        \/ CreateTimeLog_FindProjectFails(s) /\ UNCHANGED <<pwVars, mwVars, exVars>>
        \/ CreateTimeLog_FindByUser(s) /\ UNCHANGED <<pwVars, mwVars, exVars>>
        \/ CreateTimeLog_Create(s) /\ UNCHANGED <<pwVars, mwVars, exVars>>
        \/ Close(s) /\ UNCHANGED <<pwVars, mwVars, exVars>>

SpecLookup == InitAttribution /\ [][NextLookup]_vars

IsStoredProject(id) == \E i \in 1..Len(projects) : projects[i].id = id

\* C24: a lookup by id finds a document only if one with that id is stored;
\* for an id that is not stored the result is absent, also when the read of
\* the store fails, and the handler answers 404: a createTimeLog request that
\* names a project that is not stored is answered 404 and stores nothing
C24_AbsentLookupIs404 ==
    \A s \in Slots :
        (/\ Done(s) /\ reqs[s].op = "createTimeLog" /\ reqs[s].status # 400
         /\ ~IsStoredProject(reqs[s].body.projectId))
            => (reqs[s].status = 404 /\ ~reqs[s].wrote)


----------------------------------------------------------------------------
(* Roles of the users the public routes create *)

\* C26: every user created through POST /api/auth/register, whatever the
\* body, is stored with role user, and the token of the response carries
\* role user
C26_RegisterCreatesOrdinaryUsers ==
    \A s \in Slots :
        (Done(s) /\ reqs[s].op = "register" /\ reqs[s].status = 201)
            => /\ reqs[s].data.user.role = "user"
               /\ reqs[s].data.token.role = "user"
               /\ \A i \in 1..Len(users) :
                      users[i].id = reqs[s].data.user.id => users[i].role = "user"


\* the users POST /api/auth/create-admin has created: no other route of this
\* specification stores role super_admin, and the mock's default admin is
\* stored by initialize()
CreatedFirstAdmins ==
    {i \in 1..Len(users) : users[i].role = "super_admin" /\ users[i].id # DefaultAdmin.id}

\* C27: under any sequence and interleaving of create-admin requests at most
\* one user is ever created through POST /api/auth/create-admin
C27_AtMostOneFirstAdmin == Cardinality(CreatedFirstAdmins) <= 1


----------------------------------------------------------------------------
(* routes/auth.ts and AuthController: login *)

LoginBodies ==
    [email : {<<"a", "@x.com">>, <<"A", "@x.com">>, <<"c", "@x.com">>, <<"a">>},
     password : {GoodPassword, WeakPassword, <<>>}]

\* loginValidation: isEmail() and notEmpty()
LoginValidation(body) == IsEmail(body.email) /\ Len(body.password) > 0

\* POST /api/auth/login: loginValidation, then login up to its first await
DispatchLogin(s) ==
    /\ MayDispatch(s)
    /\ \E body \in LoginBodies :
          LET r == Invoked(NewRequest("login", NoUser, "missing", Undefined, Sanitized(body)))
          IN  IF ~LoginValidation(body) THEN Respond(s, r, 400, Null)
              ELSE Await(s, r, "findByEmail")
    /\ UNCHANGED <<storeVars, tokens>>

\* login without the check of user.isActive
Login_FindByEmailAnyStatus(s) ==
    /\ MayRun(s, "login", "findByEmail")
    /\ LET r == Reads(reqs[s])
           user == UserModel_findByEmail(r.body.email)
       IN  IF user = Null THEN Respond(s, r, 401, Null)
           ELSE Await(s, [r EXCEPT !.doc = user], "compare")
    /\ UNCHANGED <<storeVars, tokens>>

\* login: const user = await this.userModel.findByEmail(email), then the
\* checks up to comparePassword
Login_FindByEmail(s) ==
    /\ MayRun(s, "login", "findByEmail")
    /\ LET r == Reads(reqs[s])
           user == UserModel_findByEmail(r.body.email)
       IN  IF user = Null THEN Respond(s, r, 401, Null)
           ELSE IF ~user.isActive THEN Respond(s, r, 401, Null)
           ELSE Await(s, [r EXCEPT !.doc = user], "compare")
    /\ UNCHANGED <<storeVars, tokens>>

\* login: await AuthService.comparePassword(password, user.password), the
\* token and the response
Login_Compare(s) ==
    /\ MayRun(s, "login", "compare")
    /\ LET r == reqs[s]
           user == r.doc
       IN  IF ~ComparePassword(r.body.password, user.password)
           THEN Respond(s, r, 401, Null) /\ tokens' = tokens
           ELSE /\ tokens' = tokens \cup {GenerateToken(user)}
                /\ Respond(s, r, 200, [user |-> WithoutPassword(user),
                                       token |-> GenerateToken(user)])
    /\ UNCHANGED storeVars

\* Alice (user) and Bob (admin) have registered; Bob holds his token
InitLogin ==
    /\ BlobIdle /\ FilterIdle /\ CsvIdle /\ BootIdle
    /\ backend \in {"mock", "cosmos"}
    /\ users = (IF backend = "mock" THEN <<DefaultAdmin>> ELSE <<>>)
                  \o <<RegisteredUser(Alice, <<"a", "@x.com">>, "user"),
                       RegisteredUser(Bob, <<"b", "@x.com">>, "admin")>>
    /\ timeLogs = <<>>
    /\ projects = <<>>
    /\ nextUserId = 1
    /\ nextLogId = 1
    /\ tokens = {[id |-> Bob, role |-> "admin"]}
    /\ HttpIdle
    /\ PasswordIdle
    /\ MiddlewareIdle

\* PATCH /api/admin/users/:id/toggle-status and DELETE /api/admin/users/:id of
\* an admin, naming Alice, up to the first await
DispatchAdminOfAlice(s) ==
    /\ MayDispatch(s)
    /\ \E u \in tokens :
          LET a == AdminMiddleware(ValidBearer(u))
          IN  /\ a.next
              /\ \/ Await(s, NewRequest("deleteUser", a.user, "valid", Alice, NoBody), "delete")
                 \/ Await(s, NewRequest("toggleUserStatus", a.user, "valid", Alice, NoBody),
                          "findById")
    /\ UNCHANGED <<storeVars, tokens>>

\* login requests, served concurrently with an admin's deletions and status
\* toggles of a user
NextLogin ==
    \E s \in Slots :
        \/ DispatchLogin(s) /\ UNCHANGED <<pwVars, mwVars, exVars>>
        \/ Login_FindByEmail(s) /\ UNCHANGED <<pwVars, mwVars, exVars>>
        \/ Login_Compare(s) /\ UNCHANGED <<pwVars, mwVars, exVars>>
        \/ DispatchAdminOfAlice(s) /\ UNCHANGED <<pwVars, mwVars, exVars>>
        \/ DeleteUser_Delete(s) /\ UNCHANGED <<pwVars, mwVars, exVars>>
        \/ ToggleUserStatus_FindById(s) /\ UNCHANGED <<pwVars, mwVars, exVars>>
        \/ ToggleUserStatus_Update(s) /\ UNCHANGED <<pwVars, mwVars, exVars>>
        \/ ToggleUserStatus_Replace(s) /\ UNCHANGED <<pwVars, mwVars, exVars>>
        \/ Close(s) /\ UNCHANGED <<pwVars, mwVars, exVars>>

SpecLogin == InitLogin /\ [][NextLogin]_vars

\* the login request in slot s is answered in this step
LoginAnswers(s) ==
    /\ ~Done(s)
    /\ reqs'[s].op = "login"
    /\ reqs'[s].pc = "done"

\* the login request in slot s has looked its user up in this step and goes on
LoginFoundUser(s) ==
    /\ reqs[s] # Idle /\ reqs[s].op = "login" /\ reqs[s].pc = "findByEmail"
    /\ reqs'[s].pc = "compare"

\* the user the request looked up was stored and active when it was looked
\* up, and the password of the body verifies against that user's hash
LoginVerified(s) ==
    /\ reqs[s] # Idle /\ reqs[s].pc = "compare"
    /\ reqs[s].doc.isActive
    /\ reqs[s].doc.email = ToLowerCase(reqs[s].body.email)
    /\ ComparePassword(reqs[s].body.password, reqs[s].doc.password)

LoginLooksUpStoredActiveUser(s) ==
    LoginFoundUser(s) =>
        \E i \in 1..Len(users) : users[i] = reqs'[s].doc /\ users[i].isActive

LoginIssuesTokenOnlyVerified(s) ==
    (LoginAnswers(s) /\ reqs'[s].data # Null) =>
        /\ LoginVerified(s)
        /\ reqs'[s].status = 200
        /\ reqs'[s].data.token = GenerateToken(reqs[s].doc)

LoginChangesNoUser(s) ==
    (LoginAnswers(s) \/ LoginFoundUser(s)) => (users' = users /\ timeLogs' = timeLogs)

----------------------------------------------------------------------------
(* Authorization and the store *)

\* the user of the token is stored, active and of the role the token carries
TokenUserUnchanged(u) ==
    \E i \in 1..Len(users) :
        users[i].id = u.id /\ users[i].isActive /\ users[i].role = u.role

----------------------------------------------------------------------------
(* Stored password hashes and the responses *)

\* the response body carries a user document's password field: as data.user,
\* in data.users, or as the user of one of data.timeLogs
DisclosesPasswordHash(data) ==
    \/ /\ "user" \in DOMAIN data
       /\ data.user # Null
       /\ "password" \in DOMAIN data.user
    \/ /\ "users" \in DOMAIN data
       /\ \E i \in 1..Len(data.users) : "password" \in DOMAIN data.users[i]
    \/ /\ "timeLogs" \in DOMAIN data
       /\ \E i \in 1..Len(data.timeLogs) :
             /\ "user" \in DOMAIN data.timeLogs[i]
             /\ data.timeLogs[i].user # Null
             /\ "password" \in DOMAIN data.timeLogs[i].user

====
